---------------------------- MODULE Spec2Model ----------------------------
(***************************************************************************)
(* A model of the recommendation core of the e-commerce recommendation     *)
(* engine: HybridRecommender (src/src/recommendation_engine.py).           *)
(*                                                                         *)
(* Numbers.  Scores are Python floats in the program.  The model keeps     *)
(* them as exact rationals: a producer's score is a numerator over         *)
(* ScoreDen, a combined (ensemble) score a numerator over 10 * ScoreDen    *)
(* (the weights are tenths), an MMR score a numerator over 100 * ScoreDen. *)
(* Vectors have dimension 1, for which the dot product is the product and  *)
(* the cosine similarity is exactly the product of the signs.              *)
(*                                                                         *)
(* Dictionaries.  A Python dict whose iteration order the code depends on  *)
(* (the ensemble's score map, the trending map) is a sequence of           *)
(* <<item, score>> pairs in insertion order; a dict that is only looked    *)
(* up is a function whose DOMAIN is its key set.                           *)
(***************************************************************************)
EXTENDS Integers, Sequences, FiniteSets, TLC

\* ------------------------------------------------------------------------
\* Bounds of the model
\* ------------------------------------------------------------------------

\* product ids; "p1" < "p2" < "p3" in Redis' lexicographic member order
Items == {1, 2, 3}

Users == {"u1", "u2"}

\* the largest n a caller asks for
MaxN == 3

\* the largest raw score of a member of the sorted set 'trending:24h'
MaxTrendScore == 2

\* ------------------------------------------------------------------------
\* Generic helpers
\* ------------------------------------------------------------------------

RECURSIVE Factorial(_)
Factorial(k) == IF k <= 1 THEN 1 ELSE k * Factorial(k - 1)

\* every producer score is a numerator over ScoreDen: the contextual boosts
\* are multiples of 0.05, a normalised trending score is s / max with
\* max <= MaxTrendScore
ScoreDen == 20 * Factorial(MaxTrendScore)

Sgn(x) == IF x > 0 THEN 1 ELSE IF x < 0 THEN -1 ELSE 0

Min2(a, b) == IF a <= b THEN a ELSE b

EmptyMap == [x \in {} |-> 0]

\* dict.get(key, 0)
Get0(map, key) == IF key \in DOMAIN map THEN map[key] ELSE 0

\* the keys of an ordered dict, and the dict as a mapping
Keys(od) == {od[i][1] : i \in DOMAIN od}

AsMap(od) == [k \in Keys(od) |-> od[CHOOSE i \in DOMAIN od : od[i][1] = k][2]]

RECURSIVE SeqSum(_)
SeqSum(s) == IF s = <<>> THEN 0 ELSE Head(s) + SeqSum(Tail(s))

\* all orders in which a set can be iterated
RECURSIVE Orders(_)
Orders(S) ==
    IF S = {} THEN {<<>>}
    ELSE UNION {{<<x>> \o t : t \in Orders(S \ {x})} : x \in S}

Remove(s, i) == SubSeq(s, 1, i - 1) \o SubSeq(s, i + 1, Len(s))


\* ------------------------------------------------------------------------
\* The state
\* ------------------------------------------------------------------------

VARIABLES
    redis_client,       \* self.redis_client: TRUE a connected client, FALSE None
    reachable,          \* whether the Redis server answers at this moment
    trending,           \* the sorted set 'trending:24h': member -> raw score
    cf_cache,           \* the compute cache 'cf:<user>': user -> what was stored
                        \* (the JSON text in Redis, the dict in self._cache)
    cf_stored,          \* user -> [at, map]: when the entry was stored, from
                        \* which Redis derives its expiry, and the map stored
    user_vectors,       \* self.user_vectors: user -> vector
    product_vectors,    \* self.product_vectors: item -> vector
    db,                 \* what the history and catalogue queries return
    pc,                 \* position of the get_recommendations call
    args,               \* its arguments: user_id, context, n, exclude_products
    raises,             \* the producers whose backend or library call raises
    prod,               \* the four producers' score maps of this call
    scores,             \* the ensemble's score map, in insertion order
    selected,           \* _diversify_results: selected
    candidates,         \* _diversify_results: candidates
    result,             \* what the call returned
    added,              \* history: item -> the sum of the amounts callers have
                        \* passed to update_trending for it
    update_raised,      \* history: an update_trending call raised to its caller
    overlap,            \* history: operations of other callers that took effect
                        \* while the observed call was running
    now,                \* the time, in seconds
    lookup,             \* history: the last _collaborative_filter call observed
    experiments,        \* ABTestManager.experiments: id -> Experiment
    event_store,        \* ABTestManager.event_store: the list of events
    digest,             \* hash_input -> hash_val % 10000, the MD5 digest of
                        \* "<user_id>:<experiment_id>" reduced to its bucket
    answer,             \* the outcome of the last ABTestManager operation
    seen,               \* history: the last get_variant call and what was
                        \* called since
    reader              \* a get_experiment_results call that runs next to
                        \* track_event calls: its position and its locals

engine == <<redis_client, reachable, trending, cf_cache, cf_stored, user_vectors,
            product_vectors, db>>

call == <<pc, args, raises, prod, scores, selected, candidates, result>>

history == <<added, update_raised, overlap>>

ab == <<experiments, event_store, digest, answer, seen, reader>>

\* what get_recommendations leaves as it is
outside == <<now, lookup, ab>>

vars == <<engine, call, history, outside>>

\* ------------------------------------------------------------------------
\* HybridRecommender.__init__: the ensemble weights, in tenths
\* ------------------------------------------------------------------------

cf_weight == 4

cb_weight == 3

context_weight == 2

trending_weight == 1

Producers == {"collaborative", "content_based", "contextual", "trending"}

weights ==
    [collaborative |-> cf_weight, content_based |-> cb_weight,
     contextual |-> context_weight, trending |-> trending_weight]

\* ------------------------------------------------------------------------
\* The signal producers
\* ------------------------------------------------------------------------

\* np.dot and sklearn's cosine_similarity on vectors of dimension 1
Dot(v, w) == v * w

CosineSimilarity(v, w) == Sgn(v) * Sgn(w)

\* _compute_cf_scores: the dot product with every product vector, nothing
\* for a user without a vector (cold start)
_compute_cf_scores(user_id) ==
    IF user_id \in DOMAIN user_vectors
    THEN [p \in DOMAIN product_vectors |->
             Dot(user_vectors[user_id], product_vectors[p]) * ScoreDen]
    ELSE EmptyMap

\* the lifetime of a cached map in Redis, in seconds: setex(cache_key, 300, ...)
CacheTtl == 300

\* json.dumps of a score map: the text lists the entries; here by ascending key
RECURSIVE JsonDumps(_)
JsonDumps(map) ==
    IF DOMAIN map = {} THEN <<>>
    ELSE LET k == CHOOSE x \in DOMAIN map : \A y \in DOMAIN map : x <= y
         IN  <<<<k, map[k]>>>> \o JsonDumps([y \in DOMAIN map \ {k} |-> map[y]])

\* json.loads of such a text
JsonLoads(text) == AsMap(text)

\* the key is visible to a reader: Redis drops it CacheTtl seconds after the
\* SETEX; a key of the dict self._cache stays
CacheHolds(user_id) ==
    /\ user_id \in DOMAIN cf_cache
    /\ redis_client => now < cf_stored[user_id].at + CacheTtl

Put(map, key, value) ==
    [k \in DOMAIN map \cup {key} |-> IF k = key THEN value ELSE map[k]]

\* a _collaborative_filter that never reads the cache: it computes and
\* stores on every call
_collaborative_filter_uncached(user_id, fails) ==
    LET computed == _compute_cf_scores(user_id)
    IN  IF fails
        THEN [ok |-> FALSE, val |-> EmptyMap, cache |-> cf_cache,
              stored |-> cf_stored, computed |-> FALSE]
        ELSE [ok |-> TRUE, val |-> computed,
              cache |-> Put(cf_cache, user_id,
                            IF redis_client THEN JsonDumps(computed) ELSE computed),
              stored |-> Put(cf_stored, user_id, [at |-> now, map |-> computed]),
              computed |-> TRUE]

\* _collaborative_filter: the cached map on a hit, else the computed map,
\* which is then stored.  ok = FALSE: the call raised; computed: the call
\* invoked _compute_cf_scores.
_collaborative_filter(user_id, fails) ==
    LET computed == _compute_cf_scores(user_id)
    IN  IF fails
        THEN [ok |-> FALSE, val |-> EmptyMap, cache |-> cf_cache,
              stored |-> cf_stored, computed |-> FALSE]
        ELSE IF CacheHolds(user_id)
        THEN [ok |-> TRUE,
              val |-> IF redis_client THEN JsonLoads(cf_cache[user_id])
                      ELSE cf_cache[user_id],
              cache |-> cf_cache, stored |-> cf_stored, computed |-> FALSE]
        ELSE [ok |-> TRUE, val |-> computed,
              cache |-> Put(cf_cache, user_id,
                            IF redis_client THEN JsonDumps(computed) ELSE computed),
              stored |-> Put(cf_stored, user_id, [at |-> now, map |-> computed]),
              computed |-> TRUE]

\* _get_user_interactions
_get_user_interactions(user_id) == db.interactions[user_id]

\* _get_user_profile: the vectors of the interacted products that have one;
\* the empty sequence stands for None.  The mean of vectors of dimension 1
\* has the sign of their sum, which is all the cosine reads.
_get_user_profile(user_id) ==
    LET inter == _get_user_interactions(user_id)
        known == SelectSeq(inter, LAMBDA pid : pid \in DOMAIN product_vectors)
    IN  [i \in DOMAIN known |-> product_vectors[known[i]]]

\* _content_based_filter: `not user_profile` is true of None and of the
\* one-element array [0.0]
_content_based_filter(user_id, fails) ==
    LET vecs == _get_user_profile(user_id)
        profile == SeqSum(vecs)
    IN  IF fails THEN [ok |-> FALSE, val |-> EmptyMap]
        ELSE IF vecs = <<>> \/ profile = 0 THEN [ok |-> TRUE, val |-> EmptyMap]
        ELSE [ok |-> TRUE,
              val |-> [p \in DOMAIN product_vectors |->
                          CosineSimilarity(profile, product_vectors[p]) * ScoreDen]]

\* a boost given in hundredths, as a numerator over ScoreDen
Boost(hundredths) == (hundredths * ScoreDen) \div 100

Count(list, pid) == Cardinality({i \in DOMAIN list : list[i] = pid})

\* _contextual_boost: the rules' increments stack additively
_contextual_boost(context, fails) ==
    LET seasonal == db.seasonal
        mobile == IF context.device = "mobile" THEN db.mobile ELSE <<>>
        local == IF context.location # "" THEN db.local ELSE <<>>
        timed == db.timed
        touched == {seasonal[i] : i \in DOMAIN seasonal}
                     \cup {mobile[i] : i \in DOMAIN mobile}
                     \cup {local[i] : i \in DOMAIN local}
                     \cup {timed[i] : i \in DOMAIN timed}
    IN  IF fails THEN [ok |-> FALSE, val |-> EmptyMap]
        ELSE [ok |-> TRUE,
              val |-> [p \in touched |->
                          Boost(30) * Count(seasonal, p) + Boost(20) * Count(mobile, p)
                            + Boost(25) * Count(local, p) + Boost(15) * Count(timed, p)]]

\* the number of entries _trending_items asks Redis for: zrevrange(0, 99)
TrendingTopK == 100

\* Redis ZREVRANGE start stop WITHSCORES of a sorted set: by score descending,
\* members of equal score in descending lexicographic order
ZRevAll(zset) ==
    LET before(m) == {o \in DOMAIN zset :
                         zset[o] > zset[m] \/ (zset[o] = zset[m] /\ o > m)}
        at(i) == CHOOSE m \in DOMAIN zset : Cardinality(before(m)) = i - 1
    IN  [i \in 1..Cardinality(DOMAIN zset) |-> <<at(i), zset[at(i)]>>]

ZRevRange(zset, start, stop) ==
    LET all == ZRevAll(zset)
    IN  SubSeq(all, start + 1, Min2(stop + 1, Len(all)))

MaxScore(list) ==
    CHOOSE s \in {list[i][2] : i \in DOMAIN list} :
        \A i \in DOMAIN list : list[i][2] <= s

\* _trending_items without its try block: an error of the Redis call leaves
\* the function
_trending_items_unguarded(fails) ==
    IF ~redis_client THEN [ok |-> TRUE, val |-> <<>>]
    ELSE IF fails THEN [ok |-> FALSE, val |-> <<>>]
    ELSE LET top == ZRevRange(trending, 0, TrendingTopK - 1)
         IN  IF top = <<>> \/ MaxScore(top) = 0 THEN [ok |-> TRUE, val |-> <<>>]
             ELSE [ok |-> TRUE,
                   val |-> [i \in DOMAIN top |->
                      <<top[i][1], (top[i][2] * ScoreDen) \div MaxScore(top)>>]]

\* a _trending_items that asks Redis for the whole sorted set
_trending_items_uncapped(fails) ==
    IF ~redis_client THEN [ok |-> TRUE, val |-> <<>>]
    ELSE IF fails THEN [ok |-> TRUE, val |-> <<>>]
    ELSE LET top == ZRevAll(trending)
         IN  IF top = <<>> THEN [ok |-> TRUE, val |-> <<>>]
             ELSE IF MaxScore(top) = 0 THEN [ok |-> TRUE, val |-> <<>>]
             ELSE [ok |-> TRUE,
                   val |-> [i \in DOMAIN top |->
                      <<top[i][1], (top[i][2] * ScoreDen) \div MaxScore(top)>>]]

\* _trending_items: the top entries divided by the largest score; the empty
\* dict without a client and whenever the try block raises (the Redis call
\* fails, or the largest score is 0 and the division raises)
_trending_items(fails) ==
    IF ~redis_client THEN [ok |-> TRUE, val |-> <<>>]
    ELSE IF fails THEN [ok |-> TRUE, val |-> <<>>]
    ELSE LET top == ZRevRange(trending, 0, TrendingTopK - 1)
         IN  IF top = <<>> THEN [ok |-> TRUE, val |-> <<>>]
             ELSE IF MaxScore(top) = 0 THEN [ok |-> TRUE, val |-> <<>>]
             ELSE [ok |-> TRUE,
                   val |-> [i \in DOMAIN top |->
                      <<top[i][1], (top[i][2] * ScoreDen) \div MaxScore(top)>>]]

\* ------------------------------------------------------------------------
\* The score aggregator
\* ------------------------------------------------------------------------

\* lines 96-97: all_products
AllProducts(cf, cb, ctx, trend) ==
    DOMAIN cf \cup DOMAIN cb \cup DOMAIN ctx \cup DOMAIN trend

\* the weighted sum that leaves the trending score out
CombinedWithoutTrending(cf, cb, ctx, trend, product_id) ==
    weights.collaborative * Get0(cf, product_id)
      + weights.content_based * Get0(cb, product_id)
      + weights.contextual * Get0(ctx, product_id)

\* lines 103-108: the weighted sum, a numerator over 10 * ScoreDen
Combined(cf, cb, ctx, trend, product_id) ==
    weights.collaborative * Get0(cf, product_id)
      + weights.content_based * Get0(cb, product_id)
      + weights.contextual * Get0(ctx, product_id)
      + weights.trending * Get0(trend, product_id)

\* line 100: the products the loop skips
Excluded(product_id, exclude_products) == product_id \in exclude_products

\* lines 99-108: the loop over all_products in the set's iteration order
Ensemble(cf, cb, ctx, trend, exclude_products, order) ==
    LET kept == SelectSeq(order, LAMBDA p : ~Excluded(p, exclude_products))
    IN  [i \in DOMAIN kept |-> <<kept[i], Combined(cf, cb, ctx, trend, kept[i])>>]


\* ------------------------------------------------------------------------
\* The diversity re-ranker (MMR)
\* ------------------------------------------------------------------------

\* lambda_param, in tenths
lambda_param == 7

\* the items left in the order they were inserted
Unsorted(od) == od

\* sorted(items, key = score, reverse = True): Python's sort is stable, so
\* entries of equal score keep the order they had
RECURSIVE SortedByScore(_)
SortedByScore(od) ==
    IF od = <<>> THEN <<>>
    ELSE LET i == CHOOSE j \in DOMAIN od :
                      /\ \A k \in DOMAIN od : od[k][2] <= od[j][2]
                      /\ \A k \in 1..(j - 1) : od[k][2] < od[j][2]
         IN  <<od[i]>> \o SortedByScore(Remove(od, i))

\* _product_similarity: 0.0 when either product has no vector
_product_similarity(prod_id1, prod_id2) ==
    IF prod_id1 \notin DOMAIN product_vectors \/ prod_id2 \notin DOMAIN product_vectors
    THEN 0
    ELSE CosineSimilarity(product_vectors[prod_id1], product_vectors[prod_id2])

\* lines 296-299: the largest similarity to an item already selected
MaxSim(prod_id, sel) ==
    LET sims == {_product_similarity(prod_id, sel[i][1]) : i \in DOMAIN sel}
    IN  CHOOSE s \in sims : \A t \in sims : t <= s

\* line 302: lambda * relevance - (1 - lambda) * max_sim, a numerator over
\* 100 * ScoreDen
Mmr(rel_score, max_sim) ==
    lambda_param * rel_score - (10 - lambda_param) * max_sim * 10 * ScoreDen

\* lines 293-303: (prod_id, rel_score, mmr) of every candidate
MmrScores(cands, sel) ==
    [i \in DOMAIN cands |->
        <<cands[i][1], cands[i][2], Mmr(cands[i][2], MaxSim(cands[i][1], sel))>>]

\* a max that takes the last entry of the largest mmr
BestLast(mmr_scores) ==
    LET i == CHOOSE j \in DOMAIN mmr_scores :
                 /\ \A k \in DOMAIN mmr_scores : mmr_scores[k][3] <= mmr_scores[j][3]
                 /\ \A k \in (j + 1)..Len(mmr_scores) :
                        mmr_scores[k][3] < mmr_scores[j][3]
    IN  mmr_scores[i]

\* line 306: max(mmr_scores, key = mmr) is the first entry of the largest mmr
Best(mmr_scores) ==
    LET i == CHOOSE j \in DOMAIN mmr_scores :
                 /\ \A k \in DOMAIN mmr_scores : mmr_scores[k][3] <= mmr_scores[j][3]
                 /\ \A k \in 1..(j - 1) : mmr_scores[k][3] < mmr_scores[j][3]
    IN  mmr_scores[i]

\* the candidates with the selected one left in
RemainingWithBest(mmr_scores, best) ==
    [i \in DOMAIN mmr_scores |-> <<mmr_scores[i][1], mmr_scores[i][2]>>]

\* line 310: the candidates without the one selected
Remaining(mmr_scores, best) ==
    LET left == SelectSeq(mmr_scores, LAMBDA x : x[1] # best[1])
    IN  [i \in DOMAIN left |-> <<left[i][1], left[i][2]>>]

\* the loop's condition off by one
LoopRunsInclusive(sel, cands, n) == Len(sel) <= n /\ cands # <<>>

\* line 287: the loop's condition
LoopRuns(sel, cands, n) == Len(sel) < n /\ cands # <<>>

\* an iteration that pairs the item it picks with its mmr
LoopBodyPairingMmr(sel, cands) ==
    IF sel = <<>>
    THEN [selected |-> <<Head(cands)>>, candidates |-> Tail(cands)]
    ELSE LET mmr_scores == MmrScores(cands, sel)
             best == Best(mmr_scores)
         IN  [selected |-> Append(sel, <<best[1], best[3]>>),
              candidates |-> Remaining(mmr_scores, best)]

\* one iteration of the loop, lines 288-310
LoopBody(sel, cands) ==
    IF sel = <<>>
    THEN [selected |-> <<Head(cands)>>, candidates |-> Tail(cands)]
    ELSE LET mmr_scores == MmrScores(cands, sel)
             best == Best(mmr_scores)
         IN  [selected |-> Append(sel, <<best[1], best[2]>>),
              candidates |-> Remaining(mmr_scores, best)]

RECURSIVE Loop(_, _, _)
Loop(sel, cands, n) ==
    IF LoopRuns(sel, cands, n)
    THEN LET next == LoopBody(sel, cands)
         IN  Loop(next.selected, next.candidates, n)
    ELSE sel

\* _diversify_results as a function of the score map and n
_diversify_results(od, n) ==
    IF od = <<>> THEN <<>> ELSE Loop(<<>>, SortedByScore(od), n)

\* sorted_trending[:n] for n >= 0
Slice(list, n) == SubSeq(list, 1, Min2(n, Len(list)))

\* a list of (item, producer score) with its scores as numerators over
\* 10 * ScoreDen, the denominator of the scores a call returns
Returned(list) == [i \in DOMAIN list |-> <<list[i][1], 10 * list[i][2]>>]

\* _fallback_recommendations: the trending map by score, cut to n
_fallback_recommendations(n, fails) ==
    LET t == _trending_items(fails)
    IN  IF ~t.ok THEN [ok |-> FALSE, val |-> <<>>]
        ELSE IF t.val # <<>>
        THEN [ok |-> TRUE, val |-> Returned(Slice(SortedByScore(t.val), n))]
        ELSE [ok |-> TRUE, val |-> <<>>]


\* ------------------------------------------------------------------------
\* The worlds a call runs in
\* ------------------------------------------------------------------------

\* the history and catalogue queries as the repository stubs them: nothing
StubDB ==
    [interactions |-> [u \in Users |-> <<>>],
     seasonal |-> <<>>, mobile |-> <<>>, local |-> <<>>, timed |-> <<>>]

\* the same queries answered by a populated store
CatalogDB ==
    [interactions |-> [u \in Users |-> IF u = "u1" THEN <<1, 2>> ELSE <<>>],
     seasonal |-> <<1>>, mobile |-> <<1, 2>>, local |-> <<3>>, timed |-> <<>>]

\* the vectors before load_models, and two model files
NoModel == [users |-> EmptyMap, products |-> EmptyMap]

ModelA ==
    [users |-> [u \in {"u1"} |-> 1],
     products |-> [p \in {1, 2, 3} |-> IF p = 1 THEN 1 ELSE IF p = 2 THEN 2 ELSE -1]]

ModelB ==
    [users |-> [u \in {"u1"} |-> 1],
     products |-> [p \in {1, 2} |-> 1]]

Worlds ==
    {[db |-> StubDB, model |-> NoModel],
     [db |-> StubDB, model |-> ModelB],
     [db |-> CatalogDB, model |-> ModelA]}

Contexts ==
    {[device |-> "desktop", location |-> ""],
     [device |-> "mobile", location |-> "US"]}

\* no producer raises, exactly one does, or all do
FaultSets == {{}} \cup {{p} : p \in Producers} \cup {Producers}

\* the contents of the sorted set
TrendingStores == UNION {[S -> 0..MaxTrendScore] : S \in SUBSET Items}

NoProd == [cf |-> EmptyMap, cb |-> EmptyMap, ctx |-> EmptyMap, trend |-> EmptyMap]

\* no _collaborative_filter call has been observed
NoLookup ==
    [user_id |-> "", at |-> 0, ok |-> TRUE, val |-> EmptyMap, computed |-> FALSE,
     held |-> FALSE, age |-> 0, was |-> EmptyMap, fresh |-> FALSE]

\* no get_experiment_results call is running next to track_event calls
NoReader ==
    [pc |-> "idle", experiment_id |-> "", i |-> 0, exp_events |-> <<>>,
     results |-> EmptyMap, during |-> 0]

\* ------------------------------------------------------------------------
\* ABTestManager (src/src/ab_testing.py): the registry and the event log
\* ------------------------------------------------------------------------

\* an Experiment: the keys of its variants dict in order, its traffic_split
\* dict as <<variant, fraction>> pairs in order, the fraction written in
\* hundredths (34 is the float 0.34), its active flag and its end_date
\* (<<>> is None, <<t>> a stamp)
Experiment(variants, traffic_split, active) ==
    [variants |-> variants, traffic_split |-> traffic_split, active |-> active,
     end_date |-> <<>>]

\* _initialize_experiments: the two built-in experiments
_initialize_experiments ==
    [id \in {"rec_algorithm_v3", "diversity_test"} |->
        IF id = "rec_algorithm_v3"
        THEN Experiment(<<"control", "variant_a", "variant_b">>,
                        <<<<"control", 34>>, <<"variant_a", 33>>, <<"variant_b", 33>>>>,
                        TRUE)
        ELSE Experiment(<<"control", "more_diverse", "more_relevant">>,
                        <<<<"control", 34>>, <<"more_diverse", 33>>,
                          <<"more_relevant", 33>>>>,
                        FALSE)]

\* the experiment ids callers register and ask about; "nope" is never
\* registered
ExperimentIds == {"rec_algorithm_v3", "diversity_test", "exp1"}

HashInputs == Users \X ExperimentIds

\* int(hashlib.md5(hash_input.encode()).hexdigest(), 16) % 10000 of the hash
\* inputs "u1:rec_algorithm_v3", ..., as MD5 computes them
Md5Buckets ==
    [h \in HashInputs |->
        CASE h = <<"u1", "rec_algorithm_v3">> -> 9415
          [] h = <<"u2", "rec_algorithm_v3">> -> 3181
          [] h = <<"u1", "diversity_test">> -> 7168
          [] h = <<"u2", "diversity_test">> -> 4802
          [] h = <<"u1", "exp1">> -> 8894
          [] h = <<"u2", "exp1">> -> 2227]

\* no operation of the manager has been called
NoAnswer == [op |-> "none"]

NotSeen == [op |-> "none"]

\* ABTestManager(): the built-in experiments and an empty event store
ABTestManager ==
    /\ experiments = _initialize_experiments
    /\ event_store = <<>>
    /\ answer = NoAnswer
    /\ seen = NotSeen
    /\ reader = NoReader

\* ------------------------------------------------------------------------
\* One call of get_recommendations, position by position
\* ------------------------------------------------------------------------

\* a constructed recommender (with a Redis client or with None), its models
\* loaded or not, and a caller about to call get_recommendations
Init ==
    /\ redis_client \in BOOLEAN
    /\ reachable = TRUE
    /\ trending \in (IF redis_client THEN TrendingStores ELSE {EmptyMap})
    /\ cf_cache = EmptyMap
    /\ cf_stored = EmptyMap
    /\ \E w \in Worlds :
          /\ db = w.db
          /\ user_vectors = w.model.users
          /\ product_vectors = w.model.products
    /\ pc = "start"
    /\ args \in [user_id : Users, context : Contexts, n : 0..MaxN,
                 exclude_products : SUBSET Items]
    /\ raises \in FaultSets
    /\ prod = NoProd
    /\ scores = <<>>
    /\ selected = <<>>
    /\ candidates = <<>>
    /\ result = <<>>
    /\ added = [p \in Items |-> 0]
    /\ update_raised = FALSE
    /\ overlap = 0
    /\ now = 0
    /\ lookup = NoLookup
    /\ ABTestManager
    /\ digest = Md5Buckets

\* whether a producer's call raises now: a fault of this call, or (for the
\* two producers that talk to Redis) a client whose server does not answer
Fails(producer) ==
    \/ producer \in raises
    \/ producer \in {"collaborative", "trending"} /\ redis_client /\ ~reachable

\* line 84: the collaborative filter, which reads and writes the cache; an
\* error passes control to the except clause
Collaborative ==
    /\ pc = "start"
    /\ LET cf == _collaborative_filter(args.user_id, Fails("collaborative"))
       IN  /\ cf_cache' = cf.cache
           /\ cf_stored' = cf.stored
           /\ prod' = [prod EXCEPT !.cf = cf.val]
           /\ pc' = IF cf.ok THEN "signals" ELSE "except"
    /\ UNCHANGED <<outside, history, redis_client, reachable, trending, user_vectors, product_vectors,
                   db, args, raises, scores, selected, candidates, result>>

\* lines 87-111 when no producer raises: the other three producers, the
\* weighted ensemble in the iteration order of the set all_products, and the
\* entry into _diversify_results (lines 278-282)
Signals ==
    /\ pc = "signals"
    /\ LET cb == _content_based_filter(args.user_id, Fails("content_based"))
           ctx == _contextual_boost(args.context, Fails("contextual"))
           tr == _trending_items(Fails("trending"))
       IN  /\ cb.ok /\ ctx.ok /\ tr.ok
           /\ prod' = [prod EXCEPT !.cb = cb.val, !.ctx = ctx.val,
                                   !.trend = AsMap(tr.val)]
           /\ \E order \in Orders(AllProducts(prod.cf, cb.val, ctx.val, AsMap(tr.val))) :
                 scores' = Ensemble(prod.cf, cb.val, ctx.val, AsMap(tr.val),
                                    args.exclude_products, order)
           /\ IF scores' = <<>>
              THEN /\ pc' = "returned"
                   /\ result' = <<>>
                   /\ UNCHANGED <<selected, candidates>>
              ELSE /\ pc' = "rank"
                   /\ selected' = <<>>
                   /\ candidates' = SortedByScore(scores')
                   /\ UNCHANGED result
    /\ UNCHANGED <<outside, history, engine, args, raises>>

\* lines 87-93 when one of the three raises: control passes to the except
\* clause
SignalsRaise ==
    /\ pc = "signals"
    /\ LET cb == _content_based_filter(args.user_id, Fails("content_based"))
           ctx == _contextual_boost(args.context, Fails("contextual"))
           tr == _trending_items(Fails("trending"))
       IN  ~(cb.ok /\ ctx.ok /\ tr.ok)
    /\ pc' = "except"
    /\ UNCHANGED <<outside, history, engine, args, raises, prod, scores, selected, candidates, result>>

\* lines 288-291: the first pass of the loop takes the head of the candidates
PickFirst ==
    /\ pc = "rank"
    /\ LoopRuns(selected, candidates, args.n)
    /\ selected = <<>>
    /\ selected' = LoopBody(selected, candidates).selected
    /\ candidates' = LoopBody(selected, candidates).candidates
    /\ UNCHANGED <<outside, history, engine, pc, args, raises, prod, scores, result>>

\* lines 293-310: a later pass takes the candidate of the largest MMR score
PickMmr ==
    /\ pc = "rank"
    /\ LoopRuns(selected, candidates, args.n)
    /\ selected # <<>>
    /\ selected' = LoopBody(selected, candidates).selected
    /\ candidates' = LoopBody(selected, candidates).candidates
    /\ UNCHANGED <<outside, history, engine, pc, args, raises, prod, scores, result>>

\* lines 287, 312 and 111-114: the loop ends and the selection is returned
Return ==
    /\ pc = "rank"
    /\ ~LoopRuns(selected, candidates, args.n)
    /\ result' = selected
    /\ pc' = "returned"
    /\ UNCHANGED <<outside, history, engine, args, raises, prod, scores, selected, candidates>>

\* lines 116-119: the except clause returns the fallback's list (position
\* "recovered"; "returned" is the return of line 114); an error of the
\* fallback itself would leave the call
Fallback ==
    /\ pc = "except"
    /\ LET fb == _fallback_recommendations(args.n, Fails("trending"))
       IN  /\ result' = fb.val
           /\ pc' = IF fb.ok THEN "recovered" ELSE "raised"
    /\ UNCHANGED <<outside, history, engine, args, raises, prod, scores, selected, candidates>>

Next ==
    \/ Collaborative
    \/ Signals
    \/ SignalsRaise
    \/ PickFirst
    \/ PickMmr
    \/ Return
    \/ Fallback

Spec == Init /\ [][Next]_vars


\* ------------------------------------------------------------------------
\* Properties of one call
\* ------------------------------------------------------------------------

\* the call has handed a list to its caller
Done == pc \in {"returned", "recovered"}

ResultItems == {result[i][1] : i \in DOMAIN result}

Distinct(list) == \A i, j \in DOMAIN list : list[i][1] = list[j][1] => i = j

\* C1: no item of exclude_products is in the list a call returns, on the
\* normal path and on the fallback path
C1_ExcludedNeverReturned ==
    Done => ResultItems \cap args.exclude_products = {}

\* the same on the normal path alone, where the code does filter
C1_ExcludedNeverReturnedNormally ==
    pc = "returned" => ResultItems \cap args.exclude_products = {}

\* the score map a producer contributes under fail-soft: empty when it raises
SoftCf ==
    IF "collaborative" \in raises THEN EmptyMap
    ELSE _collaborative_filter(args.user_id, FALSE).val

SoftCb ==
    IF "content_based" \in raises THEN EmptyMap
    ELSE _content_based_filter(args.user_id, FALSE).val

SoftCtx ==
    IF "contextual" \in raises THEN EmptyMap
    ELSE _contextual_boost(args.context, FALSE).val

SoftTrend ==
    IF "trending" \in raises THEN EmptyMap
    ELSE AsMap(_trending_items(FALSE).val)

C4_AtMostN ==
    /\ Len(selected) <= args.n
    /\ Done => Len(result) <= args.n

C4_Witness ==
    /\ pc = "returned"
    /\ args.n >= 1
    /\ Len(result) = args.n
    /\ candidates # <<>>

\* C5: at every step of the loop the selected list and the candidates have
\* pairwise distinct items and share none, and the list returned has no item
\* twice
C5_NoDuplicates ==
    /\ Distinct(selected)
    /\ Distinct(candidates)
    /\ Keys(selected) \cap Keys(candidates) = {}
    /\ Done => Distinct(result)

C5_Witness ==
    /\ pc = "rank"
    /\ Len(selected) = 2
    /\ candidates # <<>>

\* C6: with n >= 1 and a non-empty score map the first element returned is an
\* entry of the map whose score is the largest of the map
C6_BestFirst ==
    (pc = "returned" /\ args.n >= 1 /\ scores # <<>>) =>
        /\ result # <<>>
        /\ \E i \in DOMAIN scores : scores[i] = result[1]
        /\ \A i \in DOMAIN scores : scores[i][2] <= result[1][2]

C6_Witness ==
    /\ pc = "returned"
    /\ args.n >= 1
    /\ Len(scores) >= 2
    /\ scores[1][2] < result[1][2]

\* the score map with its entries inserted in another order
Reordered(od, order) == [i \in DOMAIN order |-> <<order[i], AsMap(od)[order[i]]>>]

\* C7: the re-ranker returns the same list for a score map whatever order its
\* entries were inserted in
C7_Deterministic ==
    pc = "returned" =>
        \A order \in Orders(Keys(scores)) :
            _diversify_results(Reordered(scores, order), args.n) = result

\* the same for score maps without two entries of equal score
C7_DeterministicWithoutTies ==
    (pc = "returned" /\ \A i, j \in DOMAIN scores : scores[i][2] = scores[j][2] => i = j) =>
        \A order \in Orders(Keys(scores)) :
            _diversify_results(Reordered(scores, order), args.n) = result

\* C8: on the normal path the candidates are the union of the four
\* producers' items without the excluded ones, each once, and a candidate's
\* score is the sum of weight x score over the four producers, 0 standing
\* for a missing score
C8_WeightedEnsemble ==
    pc \in {"rank", "returned"} =>
        /\ Keys(scores) =
              (DOMAIN prod.cf \cup DOMAIN prod.cb \cup DOMAIN prod.ctx
                 \cup DOMAIN prod.trend) \ args.exclude_products
        /\ Distinct(scores)
        /\ \A i \in DOMAIN scores :
              LET p == scores[i][1]
                  S(map) == IF p \in DOMAIN map THEN map[p] ELSE 0
              IN  scores[i][2] =
                      4 * S(prod.cf) + 3 * S(prod.cb) + 2 * S(prod.ctx) + 1 * S(prod.trend)

C8_Witness ==
    /\ pc = "returned"
    /\ \E p \in Keys(scores) :
          /\ p \in DOMAIN prod.cf /\ p \in DOMAIN prod.cb
          /\ p \in DOMAIN prod.ctx /\ p \in DOMAIN prod.trend
          /\ prod.trend[p] > 0
    /\ \E q \in args.exclude_products : q \in DOMAIN prod.cf \cup DOMAIN prod.trend
    /\ \E r \in Keys(scores) : r \notin DOMAIN prod.trend


\* ------------------------------------------------------------------------
\* One recommender shared by concurrent callers
\* ------------------------------------------------------------------------

\* the most operations of other callers counted while one call runs
MaxOverlap == 1

\* the arguments of the observed call
SharedArgs ==
    {[user_id |-> "u1", context |-> [device |-> "desktop", location |-> ""],
      n |-> 2, exclude_products |-> {}],
     [user_id |-> "u2", context |-> [device |-> "mobile", location |-> "US"],
      n |-> 1, exclude_products |-> {3}]}

SharedFaults == FaultSets

\* the products whose views and purchases are reported while the model runs
Viewed == {2, 3}

Running == pc \in {"start", "signals", "rank", "except"}

\* another caller's operation takes effect; it is counted when the observed
\* call is running
Overlaps ==
    /\ Running => overlap < MaxOverlap
    /\ overlap' = IF Running THEN overlap + 1 ELSE overlap

\* HybridRecommender(): the constructor connects to Redis, or finds it
\* unreachable and keeps None and an in-process cache; the models are loaded
SharedInit ==
    /\ redis_client \in BOOLEAN
    /\ reachable = redis_client
    /\ trending = EmptyMap
    /\ cf_cache = EmptyMap
    /\ cf_stored = EmptyMap
    /\ db = StubDB
    /\ user_vectors = ModelB.users
    /\ product_vectors = ModelB.products
    /\ pc = "idle"
    /\ args \in SharedArgs
    /\ raises = {}
    /\ prod = NoProd
    /\ scores = <<>>
    /\ selected = <<>>
    /\ candidates = <<>>
    /\ result = <<>>
    /\ added = [p \in Items |-> 0]
    /\ update_raised = FALSE
    /\ overlap = 0
    /\ now = 0
    /\ lookup = NoLookup
    /\ ABTestManager
    /\ digest = Md5Buckets

\* Redis ZINCRBY key increment member: the server adds to the member's
\* score, creating the member at the increment, in one step
ZIncrBy(zset, increment, member) ==
    [m \in DOMAIN zset \cup {member} |->
        IF m = member THEN Get0(zset, member) + increment ELSE zset[m]]

\* update_trending, called by any caller: one ZINCRBY with a client, which
\* raises when the server does not answer; nothing without a client
update_trending ==
    \E product_id \in Viewed, score_increment \in 0..MaxTrendScore :
        /\ added[product_id] + score_increment <= MaxTrendScore
        /\ Overlaps
        /\ added' = [added EXCEPT ![product_id] = @ + score_increment]
        /\ IF redis_client
           THEN IF reachable
                THEN /\ trending' = ZIncrBy(trending, score_increment, product_id)
                     /\ UNCHANGED update_raised
                ELSE /\ update_raised' = TRUE
                     /\ UNCHANGED trending
           ELSE UNCHANGED <<trending, update_raised>>
        /\ UNCHANGED <<outside, redis_client, reachable, cf_cache, cf_stored, user_vectors,
                       product_vectors, db, call>>

\* the Redis server stops answering, or answers again
BackendDown ==
    /\ reachable
    /\ reachable' = FALSE
    /\ UNCHANGED <<outside, redis_client, trending, cf_cache, cf_stored, user_vectors, product_vectors,
                   db, call, history>>

BackendUp ==
    /\ ~reachable
    /\ reachable' = TRUE
    /\ UNCHANGED <<outside, redis_client, trending, cf_cache, cf_stored, user_vectors, product_vectors,
                   db, call, history>>

\* another caller's get_recommendations runs its collaborative filter, which
\* stores that user's map in the shared cache
OtherCollaborative ==
    \E user_id \in Users :
        /\ ~(redis_client /\ ~reachable)
        /\ user_id \notin DOMAIN cf_cache
        /\ Overlaps
        /\ cf_cache' = _collaborative_filter(user_id, FALSE).cache
        /\ cf_stored' = _collaborative_filter(user_id, FALSE).stored
        /\ UNCHANGED <<outside, redis_client, reachable, trending, user_vectors,
                       product_vectors, db, call, added, update_raised>>

\* the observed caller calls get_recommendations
Call ==
    /\ pc \in {"idle", "returned", "recovered"}
    /\ pc' = "start"
    /\ args' \in SharedArgs
    /\ raises' \in SharedFaults
    /\ prod' = NoProd
    /\ scores' = <<>>
    /\ selected' = <<>>
    /\ candidates' = <<>>
    /\ result' = <<>>
    /\ overlap' = 0
    /\ UNCHANGED <<outside, engine, added, update_raised>>

SharedNext ==
    \/ update_trending
    \/ BackendDown
    \/ BackendUp
    \/ OtherCollaborative
    \/ Call
    \/ Collaborative
    \/ Signals
    \/ SignalsRaise
    \/ PickFirst
    \/ PickMmr
    \/ Return
    \/ Fallback

SpecShared == SharedInit /\ [][SharedNext]_vars


\* ------------------------------------------------------------------------
\* Properties of the shared recommender
\* ------------------------------------------------------------------------

\* the trending producer can read the sorted set now
TrendingLive == redis_client /\ reachable /\ "trending" \notin raises

\* list is the trending-only ranking cut to n: the members of the sorted set
\* (none when it cannot be read or holds no positive score), each once, by
\* score descending, each with its score divided by the largest one
IsTrendingRanking(list, n) ==
    LET members ==
            IF TrendingLive /\ \E m \in DOMAIN trending : trending[m] > 0
            THEN DOMAIN trending ELSE {}
        largest == CHOOSE x \in {trending[m] : m \in members} :
                       \A m \in members : trending[m] <= x
    IN  /\ Len(list) = Min2(n, Cardinality(members))
        /\ Distinct(list)
        /\ \A i \in DOMAIN list :
              /\ list[i][1] \in members
              /\ list[i][2] * largest = 10 * ScoreDen * trending[list[i][1]]
        /\ \A i, j \in DOMAIN list : i < j => list[i][2] >= list[j][2]
        /\ \A m \in members \ Keys(list) :
              \A i \in DOMAIN list : trending[m] <= trending[list[i][1]]

\* C3: no error leaves get_recommendations, whatever fails and whatever other
\* callers do meanwhile; when the pipeline fails the call returns the
\* trending-only ranking, which is the empty list when trending is empty
C3_NeverPropagates ==
    /\ [](pc # "raised")
    /\ [][(pc = "except" /\ pc' # "except") =>
            (pc' = "recovered" /\ IsTrendingRanking(result', args.n))]_vars

C3_Witness ==
    /\ pc = "recovered"
    /\ overlap >= 1
    /\ Len(result) = 2
    /\ result[1][2] > result[2][2]

\* the score of an item in the trending store, 0 for an item it does not hold
TrendingScore(item) == Get0(trending, item)

\* C9: no increment is lost: an item's score is the sum of the amounts the
\* callers of update_trending have added to it
C9_NoLostUpdate ==
    \A item \in Items : TrendingScore(item) = added[item]

\* the same while the recommender holds a client whose calls all succeeded
C9_NoLostUpdateWhileConnected ==
    (redis_client /\ ~update_raised) =>
        \A item \in Items : TrendingScore(item) = added[item]

\* C10: with the backend unreachable update_trending does not raise, and an
\* increment made without a Redis client is accumulated in process, so that
\* a trending read returns the item
C10_FallbackStoreWorks ==
    /\ ~update_raised
    /\ ~redis_client =>
          \A item \in Items :
              added[item] > 0 => item \in Keys(_trending_items(FALSE).val)

\* ------------------------------------------------------------------------
\* The compute cache over time
\* ------------------------------------------------------------------------

\* the last second of the clock
MaxClock == 700

\* the steps in which the time passes, in seconds
Elapses == {100, 200}

\* the model files a deployment loads
Models == {ModelA, ModelB}

\* a recommender constructed with or without a Redis client, its models
\* not loaded yet, and no call made
Constructed(client) ==
    /\ redis_client = client
    /\ reachable = redis_client
    /\ trending = EmptyMap
    /\ cf_cache = EmptyMap
    /\ cf_stored = EmptyMap
    /\ db = StubDB
    /\ user_vectors = NoModel.users
    /\ product_vectors = NoModel.products
    /\ pc = "idle"
    /\ args \in {CHOOSE a \in SharedArgs : TRUE}
    /\ raises = {}
    /\ prod = NoProd
    /\ scores = <<>>
    /\ selected = <<>>
    /\ candidates = <<>>
    /\ result = <<>>
    /\ added = [p \in Items |-> 0]
    /\ update_raised = FALSE
    /\ overlap = 0
    /\ now = 0
    /\ lookup = NoLookup

CacheInit ==
    /\ \E client \in BOOLEAN : Constructed(client)
    /\ ABTestManager
    /\ digest = Md5Buckets

\* time passes
Elapse ==
    \E d \in Elapses :
        /\ now + d <= MaxClock
        /\ now' = now + d
        /\ UNCHANGED <<engine, call, history, lookup, ab>>

\* load_models: both pickles are read, or the second open fails after the
\* first has been assigned, or the first fails; the error is logged
load_models ==
    \E m \in Models, read \in 0..2 :
        /\ user_vectors' = IF read >= 1 THEN m.users ELSE user_vectors
        /\ product_vectors' = IF read = 2 THEN m.products ELSE product_vectors
        /\ UNCHANGED <<redis_client, reachable, trending, cf_cache, cf_stored, db,
                       call, history, outside>>

\* a caller's _collaborative_filter(user_id); the call raises when the
\* client's server does not answer
Lookup ==
    \E user_id \in Users :
        LET cf == _collaborative_filter(user_id, redis_client /\ ~reachable)
            held == user_id \in DOMAIN cf_stored
        IN  /\ cf_cache' = cf.cache
            /\ cf_stored' = cf.stored
            /\ lookup' =
                  [user_id |-> user_id, at |-> now, ok |-> cf.ok, val |-> cf.val,
                   computed |-> cf.computed, held |-> held,
                   age |-> IF held THEN now - cf_stored[user_id].at ELSE 0,
                   was |-> IF held THEN cf_stored[user_id].map ELSE EmptyMap,
                   fresh |-> /\ user_id \in DOMAIN cf.stored
                             /\ cf.stored[user_id] = [at |-> now, map |-> cf.val]
                             /\ user_id \in DOMAIN cf.cache]
            /\ UNCHANGED <<redis_client, reachable, trending, user_vectors,
                           product_vectors, db, call, history, now, ab>>

CacheNext ==
    \/ Elapse
    \/ load_models
    \/ Lookup
    \/ BackendDown
    \/ BackendUp

SpecCache == CacheInit /\ [][CacheNext]_vars

\* C11: a lookup that finds a map stored less than CacheTtl seconds ago
\* returns that map and does not invoke _compute_cf_scores, with Redis and
\* with the in-process store
C11_CacheHit ==
    (lookup.ok /\ lookup.held /\ lookup.age < CacheTtl) =>
        (~lookup.computed /\ lookup.val = lookup.was)

\* a hit in Redis after time has passed and other models were loaded, so
\* that computing would have returned another map
C11_Witness ==
    /\ redis_client
    /\ lookup.ok /\ lookup.held
    /\ lookup.age > 0 /\ lookup.age < CacheTtl
    /\ ~lookup.computed
    /\ lookup.val # EmptyMap
    /\ lookup.val # _compute_cf_scores(lookup.user_id)

\* C12: a lookup made CacheTtl seconds or more after the map was stored is
\* a miss: it computes the value and stores it with a fresh lifetime, with
\* Redis and with the in-process store; a map is served only within its
\* lifetime
C12_Expiry ==
    (lookup.ok /\ lookup.held /\ lookup.age >= CacheTtl) =>
        (lookup.computed /\ lookup.fresh)

\* the same of a recommender that holds a Redis client
C12_ExpiryWithRedis ==
    (redis_client /\ lookup.ok /\ lookup.held /\ lookup.age >= CacheTtl) =>
        (lookup.computed /\ lookup.fresh)

\* a lookup in Redis exactly CacheTtl seconds after the store
C12_RedisExpired ==
    /\ redis_client /\ lookup.ok /\ lookup.held
    /\ lookup.age = CacheTtl /\ lookup.computed


\* ------------------------------------------------------------------------
\* Python floats (IEEE 754 binary64) between 0 and 4
\* ------------------------------------------------------------------------

\* A number is written in binary with two integer digits and FxLen - 2
\* fractional ones, the most significant first: digit i has the weight
\* 2^(2 - i).  The digits are kept in FxLimbs groups of LimbBits digits, each
\* group a number below Base.  A float is such a number with at most
\* Significand digits from its leading 1 on.  Every float from 2^-16 up to 4
\* and every sum of two of them is written exactly.
FxLimbs == 6

LimbBits == 12

Significand == 53

Base == 2^LimbBits

FxLen == FxLimbs * LimbBits

FxZero == [i \in 1..FxLimbs |-> 0]

\* the group of digit i, and the weight of digit i within its group
LimbOf(i) == (i - 1) \div LimbBits + 1

WeightIn(i) == 2^(LimbBits - 1 - ((i - 1) % LimbBits))

Digit(a, i) == (a[LimbOf(i)] \div WeightIn(i)) % 2

\* the groups 1..i of a + b + carry, the carry entering at group i
RECURSIVE FxAddFrom(_, _, _, _)
FxAddFrom(a, b, i, carry) ==
    IF i = 0 THEN <<>>
    ELSE LET t == a[i] + b[i] + carry
         IN  Append(FxAddFrom(a, b, i - 1, t \div Base), t % Base)

\* the exact sum
FxAdd(a, b) == FxAddFrom(a, b, FxLimbs, 0)

\* a < b
FxLess(a, b) ==
    \E i \in 1..FxLimbs : a[i] < b[i] /\ \A j \in 1..(i - 1) : a[j] = b[j]

\* the place of the leading 1, 0 for zero
Leading(a) ==
    IF \A i \in 1..FxLimbs : a[i] = 0 THEN 0
    ELSE LET g == CHOOSE i \in 1..FxLimbs : a[i] # 0 /\ \A j \in 1..(i - 1) : a[j] = 0
             k == CHOOSE e \in 0..(LimbBits - 1) : 2^e <= a[g] /\ a[g] < 2^(e + 1)
         IN  g * LimbBits - k

\* a cut after digit `last`, which lies in group g with the weight w: the
\* digits up to it, one more unit of it when the digits cut off are more
\* than half a unit, or are half a unit and digit `last` is odd
RoundAt(a, last, g, w) ==
    LET kept == [i \in 1..FxLimbs |->
                    IF i < g THEN a[i] ELSE IF i = g THEN (a[i] \div w) * w ELSE 0]
        ulp == [i \in 1..FxLimbs |-> IF i = g THEN w ELSE 0]
        sticky == \E i \in (last + 2)..FxLen : Digit(a, i) = 1
        up == Digit(a, last + 1) = 1 /\ (sticky \/ Digit(a, last) = 1)
    IN  IF up THEN FxAdd(kept, ulp) ELSE kept

RoundFrom(a, lead) ==
    IF lead = 0 \/ lead + Significand - 1 >= FxLen THEN a
    ELSE RoundAt(a, lead + Significand - 1, LimbOf(lead + Significand - 1),
                 WeightIn(lead + Significand - 1))

\* round to nearest, ties to even: the rounding of every float operation
RoundDouble(a) == RoundFrom(a, Leading(a))

\* the groups i..FxLimbs of the quotient whose remainder so far is r; what
\* is left of the quotient beyond the last digit is recorded in that digit,
\* for the rounding
RECURSIVE FxDivFrom(_, _, _)
FxDivFrom(r, den, i) ==
    LET q == (r * Base) \div den
        rest == (r * Base) % den
    IN  IF i = FxLimbs
        THEN <<IF rest # 0 /\ q % 2 = 0 THEN q + 1 ELSE q>>
        ELSE <<q>> \o FxDivFrom(rest, den, i + 1)

\* the float num / den of two small integers; also the float a decimal
\* literal stands for (0.34 is Float(34, 100))
Float(num, den) ==
    RoundDouble(<<(num * 2^(LimbBits - 2)) \div den>>
                  \o FxDivFrom((num * 2^(LimbBits - 2)) % den, den, 2))

\* x + y of two floats
FloatAdd(x, y) == RoundDouble(FxAdd(x, y))

\* ------------------------------------------------------------------------
\* ABTestManager: the registry and the assignment of variants
\* ------------------------------------------------------------------------

\* the number of buckets: hash_val % 10000
Buckets == 10000

\* the float 1.0
One == Float(1, 1)

\* sum(traffic_split.values()): the floats are added from the left, the
\* start value 0 plus the first float being that float
RECURSIVE FloatSumFrom(_, _, _)
FloatSumFrom(traffic_split, i, total) ==
    IF i > Len(traffic_split) THEN total
    ELSE FloatSumFrom(traffic_split, i + 1,
                      FloatAdd(total, Float(traffic_split[i][2], 100)))

FloatSum(traffic_split) == FloatSumFrom(traffic_split, 1, FxZero)

\* a create_experiment that rejects only the sums above 1.0
create_experiment_at_most_one(experiment_id, variants, traffic_split) ==
    IF FxLess(One, FloatSum(traffic_split))
    THEN [raised |-> TRUE, experiments |-> experiments]
    ELSE [raised |-> FALSE,
          experiments |-> Put(experiments, experiment_id,
                              Experiment(variants, traffic_split, FALSE))]

\* a create_experiment that keeps the definition an id already has
create_experiment_once(experiment_id, variants, traffic_split) ==
    IF FloatSum(traffic_split) # One
    THEN [raised |-> TRUE, experiments |-> experiments]
    ELSE [raised |-> FALSE,
          experiments |-> IF experiment_id \in DOMAIN experiments
                          THEN experiments
                          ELSE Put(experiments, experiment_id,
                                   Experiment(variants, traffic_split, FALSE))]

\* a create_experiment that registers the experiment before it validates
create_experiment_unvalidated(experiment_id, variants, traffic_split) ==
    [raised |-> FloatSum(traffic_split) # One,
     experiments |-> Put(experiments, experiment_id,
                         Experiment(variants, traffic_split, FALSE))]

\* create_experiment: raises ValueError unless the float sum of the split is
\* 1.0, else registers the experiment, inactive, under its id
create_experiment(experiment_id, variants, traffic_split) ==
    IF FloatSum(traffic_split) # One
    THEN [raised |-> TRUE, experiments |-> experiments]
    ELSE [raised |-> FALSE,
          experiments |-> Put(experiments, experiment_id,
                              Experiment(variants, traffic_split, FALSE))]

\* an activate_experiment that leaves an experiment with an end_date inactive
activate_experiment_unless_ended(experiment_id) ==
    IF experiment_id \in DOMAIN experiments
       /\ experiments[experiment_id].end_date = <<>>
    THEN [experiments EXCEPT ![experiment_id].active = TRUE]
    ELSE experiments

\* activate_experiment and deactivate_experiment: nothing for an unknown id
activate_experiment(experiment_id) ==
    IF experiment_id \in DOMAIN experiments
    THEN [experiments EXCEPT ![experiment_id].active = TRUE]
    ELSE experiments

deactivate_experiment(experiment_id) ==
    IF experiment_id \in DOMAIN experiments
    THEN [experiments EXCEPT ![experiment_id].active = FALSE,
                             ![experiment_id].end_date = <<now>>]
    ELSE experiments

\* lines 124-132: the walk over traffic_split.items() from entry i on, the
\* fractions accumulated in floats; 'control' when no entry is reached
RECURSIVE WalkSplit(_, _, _, _)
WalkSplit(traffic_split, i, cumulative, bucket) ==
    IF i > Len(traffic_split) THEN "control"
    ELSE LET upto == FloatAdd(cumulative, Float(traffic_split[i][2], 100))
         IN  IF FxLess(bucket, upto) THEN traffic_split[i][1]
             ELSE WalkSplit(traffic_split, i + 1, upto, bucket)

\* lines 119-121: bucket = (hash_val % 10000) / 10000.0
Bucket(user_id, experiment_id) ==
    Float(digest[<<user_id, experiment_id>>] % Buckets, Buckets)

\* a get_variant without the check of the active flag
get_variant_ignoring_active(user_id, experiment_id) ==
    IF experiment_id \notin DOMAIN experiments THEN "control"
    ELSE WalkSplit(experiments[experiment_id].traffic_split, 1, FxZero,
                   Bucket(user_id, experiment_id))

\* a get_variant that treats an experiment with an end_date as ended
get_variant_ended(user_id, experiment_id) ==
    IF experiment_id \notin DOMAIN experiments THEN "control"
    ELSE IF ~experiments[experiment_id].active
              \/ experiments[experiment_id].end_date # <<>>
    THEN "control"
    ELSE WalkSplit(experiments[experiment_id].traffic_split, 1, FxZero,
                   Bucket(user_id, experiment_id))

\* get_variant
get_variant(user_id, experiment_id) ==
    IF experiment_id \notin DOMAIN experiments THEN "control"
    ELSE IF ~experiments[experiment_id].active THEN "control"
    ELSE WalkSplit(experiments[experiment_id].traffic_split, 1, FxZero,
                   Bucket(user_id, experiment_id))

\* a track_event that puts the event in front of the event store
track_event_in_front(user_id, experiment_id, variant, event_type, metadata) ==
    <<[user_id |-> user_id, experiment_id |-> experiment_id,
       variant |-> variant, event_type |-> event_type,
       timestamp |-> now, metadata |-> metadata]>> \o event_store

\* track_event: the event is appended to the event store; metadata is <<>>
\* (None or no order_value) or <<order_value>>
track_event(user_id, experiment_id, variant, event_type, metadata) ==
    Append(event_store,
           [user_id |-> user_id, experiment_id |-> experiment_id,
            variant |-> variant, event_type |-> event_type,
            timestamp |-> now, metadata |-> metadata])

\* ------------------------------------------------------------------------
\* Callers of the registry
\* ------------------------------------------------------------------------

\* the configurations callers create experiments with: a split of two
\* halves, splits that sum to 0.99 and to 1.01, two splits of 0.1, 0.2 and
\* 0.7 in different orders, and a split with a fraction of 0
Configs ==
    {[variants |-> <<"control", "a">>,
      traffic_split |-> <<<<"control", 50>>, <<"a", 50>>>>],
     [variants |-> <<"control", "a">>,
      traffic_split |-> <<<<"control", 50>>, <<"a", 49>>>>],
     [variants |-> <<"control", "a">>,
      traffic_split |-> <<<<"control", 50>>, <<"a", 51>>>>],
     [variants |-> <<"control", "a", "b">>,
      traffic_split |-> <<<<"control", 10>>, <<"a", 20>>, <<"b", 70>>>>],
     [variants |-> <<"control", "a", "b">>,
      traffic_split |-> <<<<"control", 70>>, <<"a", 20>>, <<"b", 10>>>>],
     [variants |-> <<"control", "a">>,
      traffic_split |-> <<<<"a", 0>>, <<"control", 100>>>>]}

\* the id callers create experiments under
CreatedIds == {"exp1"}

\* the ids callers pass to the other operations
AskedIds == ExperimentIds \cup {"nope"}

\* the most events tracked while the registry is exercised
MaxProbes == 1

\* what the history keeps of an experiment: its definition without the stamp
Definition(experiment_id) ==
    IF experiment_id \in DOMAIN experiments
    THEN <<experiments[experiment_id].variants,
           experiments[experiment_id].traffic_split,
           experiments[experiment_id].active>>
    ELSE <<>>

\* the history after an operation on experiment_id: cycle is 1 once the
\* experiment seen was deactivated, 2 once it was activated again
Since(op, experiment_id) ==
    IF seen.op = "none" THEN seen
    ELSE [seen EXCEPT
            !.tracked = @ \/ op = "track_event",
            !.cycle = IF experiment_id # seen.experiment_id THEN @
                      ELSE IF op = "deactivate_experiment" /\ @ = 0 THEN 1
                      ELSE IF op = "activate_experiment" /\ @ = 1 THEN 2
                      ELSE @]

CreateExperiment ==
    \E experiment_id \in CreatedIds, c \in Configs :
        LET r == create_experiment(experiment_id, c.variants, c.traffic_split)
        IN  /\ experiments' = r.experiments
            /\ answer' = [op |-> "create_experiment",
                          experiment_id |-> experiment_id,
                          traffic_split |-> c.traffic_split,
                          raised |-> r.raised]
            /\ seen' = Since("create_experiment", experiment_id)
            /\ UNCHANGED <<event_store, digest, engine, call, history, now, lookup, reader>>

ActivateExperiment ==
    \E experiment_id \in AskedIds :
        /\ experiments' = activate_experiment(experiment_id)
        /\ answer' = [op |-> "activate_experiment"]
        /\ seen' = Since("activate_experiment", experiment_id)
        /\ UNCHANGED <<event_store, digest, engine, call, history, now, lookup, reader>>

DeactivateExperiment ==
    \E experiment_id \in AskedIds :
        /\ experiments' = deactivate_experiment(experiment_id)
        /\ answer' = [op |-> "deactivate_experiment"]
        /\ seen' = Since("deactivate_experiment", experiment_id)
        /\ UNCHANGED <<event_store, digest, engine, call, history, now, lookup, reader>>

\* the call in the history was made for the same user and experiment, and
\* the experiment is defined now as it was then
Again(user_id, experiment_id) ==
    /\ seen.op # "none"
    /\ seen.user_id = user_id
    /\ seen.experiment_id = experiment_id
    /\ seen.definition = Definition(experiment_id)

\* a caller asks for a user's variant; the history keeps the call when the
\* experiment is active
GetVariant ==
    \E user_id \in Users, experiment_id \in AskedIds :
        /\ answer' = [op |-> "get_variant", user_id |-> user_id,
                      experiment_id |-> experiment_id,
                      value |-> get_variant(user_id, experiment_id),
                      raised |-> FALSE,
                      again |-> Again(user_id, experiment_id),
                      through |-> /\ Again(user_id, experiment_id)
                                  /\ seen.tracked /\ seen.cycle = 2]
        /\ seen' = IF experiment_id \in DOMAIN experiments
                      /\ experiments[experiment_id].active
                   THEN [op |-> "get_variant", user_id |-> user_id,
                         experiment_id |-> experiment_id,
                         definition |-> Definition(experiment_id),
                         value |-> answer'.value, tracked |-> FALSE, cycle |-> 0]
                   ELSE NotSeen
        /\ UNCHANGED <<experiments, event_store, digest, engine, call, history,
                       now, lookup, reader>>

\* the serving layer reports an impression
TrackProbe ==
    /\ Len(event_store) < MaxProbes
    /\ event_store' = track_event("u1", "rec_algorithm_v3", "control", "impression", <<>>)
    /\ answer' = [op |-> "track_event"]
    /\ seen' = Since("track_event", "rec_algorithm_v3")
    /\ UNCHANGED <<experiments, digest, engine, call, history, now, lookup, reader>>

RegistryNext ==
    \/ CreateExperiment
    \/ ActivateExperiment
    \/ DeactivateExperiment
    \/ GetVariant
    \/ TrackProbe

\* a manager is constructed next to a recommender
RegistryInit ==
    /\ Constructed(FALSE)
    /\ ABTestManager
    /\ digest = Md5Buckets

SpecRegistry == RegistryInit /\ [][RegistryNext]_vars

\* ------------------------------------------------------------------------
\* Properties of the registry
\* ------------------------------------------------------------------------

\* the sum of the fractions of a split, in hundredths, as a number
SplitSum(traffic_split) ==
    SeqSum([i \in DOMAIN traffic_split |-> traffic_split[i][2]])

\* C13: a create_experiment whose fractions do not sum to 1 fails with the
\* validation error and leaves the registry as it was before the call
C13_InvalidSplitRejected ==
    [][(answer'.op = "create_experiment" /\ SplitSum(answer'.traffic_split) # 100)
          => (answer'.raised /\ experiments' = experiments)]_vars

\* the split 0.5, 0.49 was rejected while the id holds an earlier experiment
C13_Witness ==
    /\ answer.op = "create_experiment"
    /\ answer.traffic_split = <<<<"control", 50>>, <<"a", 49>>>>
    /\ answer.raised
    /\ "exp1" \in DOMAIN experiments
    /\ experiments["exp1"].traffic_split # answer.traffic_split

\* C14: get_variant does not raise and returns 'control' for every user when
\* the experiment id is not registered or the experiment is inactive
C14_FailOpen ==
    (/\ answer.op = "get_variant"
     /\ \/ answer.experiment_id \notin DOMAIN experiments
        \/ ~experiments[answer.experiment_id].active)
        => (answer.value = "control" /\ ~answer.raised)

\* a user whose bucket lies in variant_b asked after the deactivation
C14_Witness ==
    /\ answer.op = "get_variant"
    /\ answer.experiment_id = "rec_algorithm_v3"
    /\ ~experiments["rec_algorithm_v3"].active
    /\ get_variant_ignoring_active(answer.user_id, "rec_algorithm_v3") = "variant_b"
    /\ answer.value = "control"

\* C15: get_variant returns the variant the previous call for the same user
\* and experiment returned, whatever was tracked in between and also after
\* the experiment was deactivated and activated again
C15_Idempotent ==
    [][(answer'.op = "get_variant" /\ Again(answer'.user_id, answer'.experiment_id))
          => answer'.value = seen.value]_vars

\* a repeated call after an event was tracked and the experiment was
\* deactivated and activated, for a user outside 'control'
C15_Witness ==
    /\ answer.op = "get_variant"
    /\ answer.through
    /\ answer.value # "control"

\* ------------------------------------------------------------------------
\* The assignment over all buckets
\* ------------------------------------------------------------------------

\* the users at hand are users whose digest falls into one bucket, any of
\* the Buckets ones
AssignInit ==
    /\ Constructed(FALSE)
    /\ ABTestManager
    /\ digest \in {[h \in HashInputs |-> b] : b \in 0..(Buckets - 1)}

\* an operator creates the experiment "exp1" and, when that succeeded,
\* activates it: create_experiment followed by activate_experiment
Launch ==
    \E c \in Configs :
        LET r == create_experiment("exp1", c.variants, c.traffic_split)
        IN  /\ answer.op = "none"
            /\ experiments' = IF r.raised THEN r.experiments
                              ELSE [r.experiments EXCEPT !["exp1"].active = TRUE]
            /\ answer' = IF r.raised
                         THEN [op |-> "create_experiment", experiment_id |-> "exp1",
                               traffic_split |-> c.traffic_split, raised |-> TRUE]
                         ELSE [op |-> "activate_experiment"]
            /\ UNCHANGED <<event_store, digest, seen, engine, call, history,
                           now, lookup, reader>>

\* the serving layer asks once for the variant of a user
Assign ==
    \E experiment_id \in {"rec_algorithm_v3", "exp1"} :
        /\ answer.op # "get_variant"
        /\ answer' = [op |-> "get_variant", user_id |-> "u1",
                      experiment_id |-> experiment_id,
                      value |-> get_variant("u1", experiment_id),
                      raised |-> FALSE, again |-> FALSE, through |-> FALSE]
        /\ UNCHANGED <<experiments, event_store, digest, seen, engine, call,
                       history, now, lookup, reader>>

AssignNext ==
    \/ Launch
    \/ Assign

SpecAssign == AssignInit /\ [][AssignNext]_vars

\* the sum of the first i fractions of a split, in hundredths, as a number
RECURSIVE Cumulative(_, _)
Cumulative(traffic_split, i) ==
    IF i = 0 THEN 0 ELSE Cumulative(traffic_split, i - 1) + traffic_split[i][2]

\* the first variant, in the order of the split, whose cumulative fraction
\* exceeds the bucket b / Buckets; 'control' when there is none
FirstExceeding(traffic_split, b) ==
    LET over == {i \in DOMAIN traffic_split :
                    Cumulative(traffic_split, i) * Buckets > 100 * b}
    IN  IF over = {} THEN "control"
        ELSE traffic_split[CHOOSE i \in over : \A j \in over : i <= j][1]

\* the experiment the last get_variant call asked about is active
AnsweredActive ==
    /\ answer.op = "get_variant"
    /\ answer.experiment_id \in DOMAIN experiments
    /\ experiments[answer.experiment_id].active

\* C16: for an active experiment get_variant returns the first variant whose
\* cumulative fraction exceeds the user's bucket, so that a variant with the
\* fraction f holds exactly the f * 10000 buckets after those of the
\* variants before it, and a variant with the fraction 0 holds none
C16_ExactShare ==
    AnsweredActive =>
        answer.value =
            FirstExceeding(experiments[answer.experiment_id].traffic_split,
                           digest[<<answer.user_id, answer.experiment_id>>] % Buckets)

\* the same of the built-in split 0.34, 0.33, 0.33
C16_ExactShareBuiltIn ==
    (AnsweredActive /\ answer.experiment_id = "rec_algorithm_v3") =>
        answer.value =
            FirstExceeding(experiments[answer.experiment_id].traffic_split,
                           digest[<<answer.user_id, answer.experiment_id>>] % Buckets)

\* ------------------------------------------------------------------------
\* ABTestManager: the metrics of an experiment
\* ------------------------------------------------------------------------

\* the keys of an experiment's variants dict
VariantsOf(experiment_id) ==
    {experiments[experiment_id].variants[i] :
        i \in DOMAIN experiments[experiment_id].variants}

\* round(num / den, 0) for num >= 0 and den > 0: to the nearest integer, a
\* half to the even one
RoundHalfEven(num, den) ==
    LET q == num \div den
        r == num % den
    IN  IF 2 * r > den \/ (2 * r = den /\ q % 2 = 1) THEN q + 1 ELSE q

\* round(num / den * 100, 2) when guard > 0, else 0, in hundredths; the
\* counts of the model are small enough for the float quotient to round as
\* the exact one
Rate(num, den, guard) ==
    IF guard > 0
    THEN IF num >= 0 THEN RoundHalfEven(num * 10000, den)
         ELSE 0 - RoundHalfEven((0 - num) * 10000, den)
    ELSE 0

CountType(events, event_type) ==
    Cardinality({i \in DOMAIN events : events[i].event_type = event_type})

\* sum(e['metadata'].get('order_value', 0) for e in purchase_events)
RECURSIVE Revenue(_)
Revenue(events) ==
    IF events = <<>> THEN 0
    ELSE (IF Head(events).event_type = "purchase" /\ Head(events).metadata # <<>>
          THEN Head(events).metadata[1] ELSE 0)
         + Revenue(Tail(events))

\* a _calculate_metrics that takes the conversion rate per impression
_calculate_metrics_per_impression(events) ==
    LET users == Cardinality({events[i].user_id : i \in DOMAIN events})
        impressions == CountType(events, "impression")
        clicks == CountType(events, "click")
        purchases == CountType(events, "purchase")
        revenue == Revenue(events)
    IN  IF events = <<>>
        THEN [users |-> 0, impressions |-> 0, clicks |-> 0, purchases |-> 0,
              ctr |-> 0, conversion_rate |-> 0, revenue |-> 0,
              revenue_per_user |-> 0, aov |-> 0]
        ELSE [users |-> users, impressions |-> impressions, clicks |-> clicks,
              purchases |-> purchases,
              ctr |-> Rate(clicks, impressions, impressions),
              conversion_rate |-> Rate(purchases, impressions, impressions),
              revenue |-> revenue,
              revenue_per_user |-> Rate(revenue, 100 * users, users),
              aov |-> Rate(revenue, 100 * purchases, purchases)]

\* _calculate_metrics: counts and revenue as numbers, the four rates in
\* hundredths (ctr and conversion_rate are percentages)
_calculate_metrics(events) ==
    LET users == Cardinality({events[i].user_id : i \in DOMAIN events})
        impressions == CountType(events, "impression")
        clicks == CountType(events, "click")
        purchases == CountType(events, "purchase")
        revenue == Revenue(events)
    IN  IF events = <<>>
        THEN [users |-> 0, impressions |-> 0, clicks |-> 0, purchases |-> 0,
              ctr |-> 0, conversion_rate |-> 0, revenue |-> 0,
              revenue_per_user |-> 0, aov |-> 0]
        ELSE [users |-> users, impressions |-> impressions, clicks |-> clicks,
              purchases |-> purchases,
              ctr |-> Rate(clicks, impressions, impressions),
              conversion_rate |-> Rate(purchases, clicks, clicks),
              revenue |-> revenue,
              revenue_per_user |-> Rate(revenue, 100 * users, users),
              aov |-> Rate(revenue, 100 * purchases, purchases)]

\* line 186: the events of the experiment
ExpEvents(experiment_id) ==
    SelectSeq(event_store, LAMBDA ev : ev.experiment_id = experiment_id)

\* a get_experiment_results that does not filter the events by experiment
get_experiment_results_unfiltered(experiment_id) ==
    IF experiment_id \notin DOMAIN experiments
    THEN [raised |-> TRUE, results |-> EmptyMap]
    ELSE [raised |-> FALSE,
          results |->
              [variant \in VariantsOf(experiment_id) |->
                  _calculate_metrics(
                      SelectSeq(event_store, LAMBDA ev : ev.variant = variant))]]

\* a get_experiment_results that counts the events of variants the
\* experiment does not have under 'control'
get_experiment_results_with_strays(experiment_id) ==
    IF experiment_id \notin DOMAIN experiments
    THEN [raised |-> TRUE, results |-> EmptyMap]
    ELSE [raised |-> FALSE,
          results |->
              [variant \in VariantsOf(experiment_id) |->
                  _calculate_metrics(
                      SelectSeq(ExpEvents(experiment_id),
                                LAMBDA ev :
                                    \/ ev.variant = variant
                                    \/ /\ variant = "control"
                                       /\ ev.variant \notin VariantsOf(experiment_id)))]]

\* get_experiment_results: ValueError for an unregistered id, else the
\* metrics of every variant of the experiment
get_experiment_results(experiment_id) ==
    IF experiment_id \notin DOMAIN experiments
    THEN [raised |-> TRUE, results |-> EmptyMap]
    ELSE [raised |-> FALSE,
          results |->
              [variant \in VariantsOf(experiment_id) |->
                  _calculate_metrics(
                      SelectSeq(ExpEvents(experiment_id),
                                LAMBDA ev : ev.variant = variant))]]

\* lines 279-289: the contingency table of a variant against control
Observed(control_data, variant_data, metric) ==
    LET success(data) == IF metric = "conversion_rate" THEN data.purchases
                         ELSE data.clicks
        total(data) == IF metric = "conversion_rate" THEN data.clicks
                       ELSE data.impressions
    IN  <<<<success(control_data), total(control_data) - success(control_data)>>,
          <<success(variant_data), total(variant_data) - success(variant_data)>>>>

\* scipy.stats.chi2_contingency(observed) raises ValueError: for a negative
\* entry and for an expected frequency of zero, which a row or a column
\* without observations gives; of a table without any observation the
\* expected frequencies are not numbers, and the library either raises or
\* returns statistics that are not numbers (zero_raises)
Chi2Raises(observed, zero_raises) ==
    LET row(i) == observed[i][1] + observed[i][2]
        col(j) == observed[1][j] + observed[2][j]
    IN  \/ \E i, j \in 1..2 : observed[i][j] < 0
        \/ IF row(1) + row(2) = 0 THEN zero_raises
           ELSE \E k \in 1..2 : row(k) = 0 \/ col(k) = 0

\* line 297: the lift of a variant over control, a percentage in hundredths
Lift(control_data, variant_data, metric) ==
    IF control_data[metric] > 0
    THEN Rate(variant_data[metric] - control_data[metric],
              control_data[metric], 1)
    ELSE 0

\* calculate_statistical_significance: nothing without scipy; else an entry
\* for every variant but control (of which the lift is kept here; p_value
\* and chi_square are scipy's), unless a chi2_contingency call raises
calculate_statistical_significance(experiment_id, metric, scipy, zero_raises) ==
    LET got == get_experiment_results(experiment_id)
        results == got.results
        others == DOMAIN results \ {"control"}
    IN  IF ~scipy THEN [raised |-> FALSE, significance |-> EmptyMap]
        ELSE IF got.raised THEN [raised |-> TRUE, significance |-> EmptyMap]
        ELSE IF Cardinality(DOMAIN results) < 2 \/ "control" \notin DOMAIN results
        THEN [raised |-> FALSE, significance |-> EmptyMap]
        ELSE IF metric \notin {"ctr", "conversion_rate"}
        THEN [raised |-> FALSE, significance |-> EmptyMap]
        ELSE IF \E variant \in others :
                   Chi2Raises(Observed(results["control"], results[variant], metric),
                              zero_raises)
        THEN [raised |-> TRUE, significance |-> EmptyMap]
        ELSE [raised |-> FALSE,
              significance |->
                  [variant \in others |->
                      [lift |-> Lift(results["control"], results[variant], metric)]]]

\* ------------------------------------------------------------------------
\* Callers that track events and read the metrics
\* ------------------------------------------------------------------------

\* the longest event log
MaxEvents == 4

\* the events callers track: of both users, of both variants of "exp1",
\* of every counted type, a purchase with and one without an order value,
\* and an event of another experiment
EventInputs ==
    {<<"u1", "exp1", "control", "impression", <<>>>>,
     <<"u1", "exp1", "control", "click", <<>>>>,
     <<"u2", "exp1", "control", "purchase", <<50>>>>,
     <<"u2", "exp1", "a", "impression", <<>>>>,
     <<"u2", "exp1", "a", "click", <<>>>>,
     <<"u1", "exp1", "a", "purchase", <<>>>>,
     <<"u1", "rec_algorithm_v3", "control", "click", <<>>>>}

Metrics == {"conversion_rate", "ctr", "revenue"}

\* a manager on which "exp1" was created with two halves
EventsInit ==
    /\ Constructed(FALSE)
    /\ experiments = Put(_initialize_experiments, "exp1",
                         Experiment(<<"control", "a">>,
                                    <<<<"control", 50>>, <<"a", 50>>>>, FALSE))
    /\ event_store = <<>>
    /\ answer = NoAnswer
    /\ seen = NotSeen
    /\ reader = NoReader
    /\ digest = Md5Buckets

TrackEvent ==
    \E e \in EventInputs :
        /\ Len(event_store) < MaxEvents
        /\ event_store' = track_event(e[1], e[2], e[3], e[4], e[5])
        /\ answer' = [op |-> "track_event", user_id |-> e[1],
                      experiment_id |-> e[2], variant |-> e[3],
                      event_type |-> e[4], metadata |-> e[5]]
        /\ UNCHANGED <<experiments, digest, seen, engine, call, history,
                       now, lookup, reader>>

GetExperimentResults ==
    \E experiment_id \in AskedIds \ {"diversity_test"} :
        LET r == get_experiment_results(experiment_id)
        IN  /\ answer' = [op |-> "get_experiment_results",
                          experiment_id |-> experiment_id,
                          raised |-> r.raised, results |-> r.results]
            /\ UNCHANGED <<experiments, event_store, digest, seen, engine,
                           call, history, now, lookup, reader>>

\* the significance of the created experiment; whether scipy is installed,
\* and what its chi2_contingency does with a table of zeros, is the
\* deployment's
Significance ==
    \E experiment_id \in CreatedIds, metric \in Metrics,
       scipy \in BOOLEAN :
      \E zero_raises \in IF scipy THEN BOOLEAN ELSE {FALSE} :
        LET r == calculate_statistical_significance(experiment_id, metric,
                                                    scipy, zero_raises)
        IN  /\ answer' = [op |-> "calculate_statistical_significance",
                          experiment_id |-> experiment_id, metric |-> metric,
                          scipy |-> scipy, raised |-> r.raised,
                          significance |-> r.significance]
            /\ UNCHANGED <<experiments, event_store, digest, seen, engine,
                           call, history, now, lookup, reader>>

EventsNext ==
    \/ TrackEvent
    \/ GetExperimentResults
    \/ Significance

SpecEvents == EventsInit /\ [][EventsNext]_vars

\* ------------------------------------------------------------------------
\* Properties of the event log and of the metrics
\* ------------------------------------------------------------------------

\* C17: a call of track_event makes the event log exactly one entry longer,
\* the new entry carries the user id, the experiment id, the variant and the
\* event type of the call, and the log before the call is a prefix of the
\* log after it; every other operation leaves the log as it is
C17_AppendOnly ==
    [][/\ Len(event_store') >= Len(event_store)
       /\ SubSeq(event_store', 1, Len(event_store)) = event_store
       /\ IF answer'.op = "track_event"
          THEN /\ Len(event_store') = Len(event_store) + 1
               /\ LET new == event_store'[Len(event_store')]
                  IN  /\ new.user_id = answer'.user_id
                      /\ new.experiment_id = answer'.experiment_id
                      /\ new.variant = answer'.variant
                      /\ new.event_type = answer'.event_type
          ELSE event_store' = event_store]_vars

\* an event was tracked after three others
C17_Witness ==
    /\ answer.op = "track_event"
    /\ Len(event_store) = 4
    /\ event_store[4].user_id = "u2"
    /\ event_store[4].variant = "a"
    /\ event_store[1].variant = "control"

\* the logged events of a variant of an experiment, as positions in the log
Logged(experiment_id, variant) ==
    {i \in DOMAIN event_store :
        /\ event_store[i].experiment_id = experiment_id
        /\ event_store[i].variant = variant}

OfType(positions, event_type) ==
    {i \in positions : event_store[i].event_type = event_type}

\* the sum of the order values of the purchases at the positions
OrderValues(positions) ==
    SeqSum([i \in DOMAIN event_store |->
               IF i \in OfType(positions, "purchase")
                  /\ event_store[i].metadata # <<>>
               THEN event_store[i].metadata[1] ELSE 0])

\* C18: get_experiment_results of a registered experiment has an entry for
\* every variant of the experiment, whose impressions, clicks and purchases
\* are the numbers of logged events of that type of the experiment and the
\* variant, whose users is the number of distinct user ids of these events
\* and whose revenue is the sum of the order values of the purchases
C18_ResultsCount ==
    (answer.op = "get_experiment_results" /\ ~answer.raised) =>
        /\ DOMAIN answer.results = VariantsOf(answer.experiment_id)
        /\ \A variant \in VariantsOf(answer.experiment_id) :
              LET logged == Logged(answer.experiment_id, variant)
                  m == answer.results[variant]
              IN  /\ m.impressions = Cardinality(OfType(logged, "impression"))
                  /\ m.clicks = Cardinality(OfType(logged, "click"))
                  /\ m.purchases = Cardinality(OfType(logged, "purchase"))
                  /\ m.users = Cardinality({event_store[i].user_id : i \in logged})
                  /\ m.revenue = OrderValues(logged)

\* results of "exp1" when the log holds events of two users and a purchase
\* for its control, none for its other variant, and an event of another
\* experiment
C18_Witness ==
    /\ answer.op = "get_experiment_results"
    /\ answer.experiment_id = "exp1"
    /\ answer.results["control"].users = 2
    /\ answer.results["control"].revenue = 50
    /\ answer.results["control"].clicks = 1
    /\ answer.results["a"].users = 0
    /\ \E i \in DOMAIN event_store :
          event_store[i].experiment_id = "rec_algorithm_v3"

\* rate (in hundredths) is num / den x scale to the nearest hundredth, and
\* 0 when den is 0
Nearest(rate, num, den, scale) ==
    IF den = 0 THEN rate = 0
    ELSE LET diff == rate * den - num * scale * 100
         IN  2 * diff <= den /\ 2 * diff >= 0 - den

\* C19: in the results of a registered experiment, which never raise, the
\* ctr of every variant is clicks / impressions x 100, the conversion rate
\* purchases / clicks x 100, the revenue per user revenue / users and the
\* average order value revenue / purchases, each to two decimals and each 0
\* when its denominator is 0
C19_DerivedRates ==
    (answer.op = "get_experiment_results"
     /\ answer.experiment_id \in DOMAIN experiments) =>
        /\ ~answer.raised
        /\ \A variant \in DOMAIN answer.results :
              LET m == answer.results[variant]
              IN  /\ Nearest(m.ctr, m.clicks, m.impressions, 100)
                  /\ Nearest(m.conversion_rate, m.purchases, m.clicks, 100)
                  /\ Nearest(m.revenue_per_user, m.revenue, m.users, 1)
                  /\ Nearest(m.aov, m.revenue, m.purchases, 1)

\* results in which a variant has one click on three impressions and no
\* purchase (a ctr of 33.33), and the other variant has no event at all
C19_Witness ==
    /\ answer.op = "get_experiment_results"
    /\ answer.experiment_id = "exp1"
    /\ ~answer.raised
    /\ answer.results["control"].impressions = 3
    /\ answer.results["control"].clicks = 1
    /\ answer.results["control"].ctr = 3333
    /\ answer.results["control"].conversion_rate = 0
    /\ answer.results["control"].aov = 0
    /\ answer.results["a"] = _calculate_metrics(<<>>)

\* the variants of an experiment that have logged events
WithEvents(experiment_id) ==
    {variant \in VariantsOf(experiment_id) : Logged(experiment_id, variant) # {}}

\* C20: calculate_statistical_significance of a registered experiment of
\* which fewer than two variants have logged events returns an empty
\* mapping and does not raise
C20_NoResult ==
    (/\ answer.op = "calculate_statistical_significance"
     /\ answer.experiment_id \in DOMAIN experiments
     /\ Cardinality(WithEvents(answer.experiment_id)) < 2) =>
        /\ ~answer.raised
        /\ answer.significance = EmptyMap

\* C20 holds where scipy is not installed
C20_NoResultWithoutScipy ==
    (/\ answer.op = "calculate_statistical_significance"
     /\ answer.experiment_id \in DOMAIN experiments
     /\ ~answer.scipy) =>
        /\ ~answer.raised
        /\ answer.significance = EmptyMap

\* with scipy, the chi-square test of an experiment with events of its
\* control only raises
C20_ControlOnlyRaises ==
    /\ answer.op = "calculate_statistical_significance"
    /\ answer.scipy
    /\ answer.metric = "ctr"
    /\ WithEvents("exp1") = {"control"}
    /\ answer.raised

\* the successes of the control variant in the metric of a significance
\* call: its purchases for the conversion rate, its clicks for the ctr
ControlSuccesses(experiment_id, metric) ==
    Cardinality(OfType(Logged(experiment_id, "control"),
                       IF metric = "conversion_rate" THEN "purchase" ELSE "click"))

\* C21: calculate_statistical_significance of an experiment whose control
\* has no purchase (for the ctr, no click) does not raise and reports a lift
\* of 0 for every variant but control
C21_LiftZero ==
    (/\ answer.op = "calculate_statistical_significance"
     /\ answer.scipy
     /\ answer.metric \in {"conversion_rate", "ctr"}
     /\ ControlSuccesses(answer.experiment_id, answer.metric) = 0) =>
        /\ ~answer.raised
        /\ DOMAIN answer.significance = VariantsOf(answer.experiment_id) \ {"control"}
        /\ \A variant \in DOMAIN answer.significance :
              answer.significance[variant].lift = 0

\* where the call does not raise, the lift over a control without successes
\* is 0
C21_LiftZeroWhenTested ==
    (/\ answer.op = "calculate_statistical_significance"
     /\ answer.scipy
     /\ answer.metric \in {"conversion_rate", "ctr"}
     /\ ControlSuccesses(answer.experiment_id, answer.metric) = 0
     /\ ~answer.raised) =>
        \A variant \in DOMAIN answer.significance :
            answer.significance[variant].lift = 0

\* a test of a control without clicks that chi2_contingency accepts
C21_Tested ==
    /\ answer.op = "calculate_statistical_significance"
    /\ answer.scipy
    /\ answer.metric = "ctr"
    /\ ControlSuccesses("exp1", "ctr") = 0
    /\ Logged("exp1", "control") # {}
    /\ ~answer.raised
    /\ answer.significance # EmptyMap

\* a control with a click and no purchase, the other variant without events:
\* the call raises
C21_Raises ==
    /\ answer.op = "calculate_statistical_significance"
    /\ answer.scipy
    /\ answer.metric = "conversion_rate"
    /\ ControlSuccesses("exp1", "conversion_rate") = 0
    /\ OfType(Logged("exp1", "control"), "click") # {}
    /\ answer.raised

\* ------------------------------------------------------------------------
\* get_experiment_results next to concurrent track_event calls
\* ------------------------------------------------------------------------

\* the events other threads track while the results are read
Appended ==
    {<<"u1", "exp1", "control", "click", <<>>>>,
     <<"u2", "exp1", "control", "purchase", <<50>>>>,
     <<"u2", "exp1", "a", "click", <<>>>>,
     <<"u1", "rec_algorithm_v3", "control", "click", <<>>>>}

\* an iteration that takes the events of the list from its end
Visit_backwards(exp_events, position, experiment_id) ==
    LET e == event_store[Len(event_store) - position + 1]
    IN  IF e.experiment_id = experiment_id THEN Append(exp_events, e)
        ELSE exp_events

\* line 186, one iteration of the comprehension: the list iterator yields
\* the event at its index, which is kept when it is of the experiment
Visit(exp_events, position, experiment_id) ==
    LET e == event_store[position]
    IN  IF e.experiment_id = experiment_id THEN Append(exp_events, e)
        ELSE exp_events

\* lines 189-196: the metrics of every variant, from the local exp_events
GroupByVariant(experiment_id, exp_events) ==
    [variant \in VariantsOf(experiment_id) |->
        _calculate_metrics(SelectSeq(exp_events, LAMBDA ev : ev.variant = variant))]

\* lines 182-186: the id is registered, the comprehension starts with an
\* iterator at index 0
ReadStart ==
    \E experiment_id \in {"exp1", "rec_algorithm_v3"} :
        /\ reader.pc = "idle"
        /\ experiment_id \in DOMAIN experiments
        /\ reader' = [reader EXCEPT !.pc = "iterating",
                                    !.experiment_id = experiment_id]
        /\ UNCHANGED <<experiments, event_store, digest, answer, seen, engine,
                       call, history, now, lookup>>

\* the iterator is not at the end of the list as it is now: it yields the
\* next event
ReadVisit ==
    /\ reader.pc = "iterating"
    /\ reader.i < Len(event_store)
    /\ reader' = [reader EXCEPT !.i = reader.i + 1,
                                !.exp_events = Visit(reader.exp_events,
                                                     reader.i + 1,
                                                     reader.experiment_id)]
    /\ UNCHANGED <<experiments, event_store, digest, answer, seen, engine,
                   call, history, now, lookup>>

\* the iterator is at the end of the list as it is now: the comprehension
\* ends, and the results are computed from exp_events and returned
ReadReturn ==
    /\ reader.pc = "iterating"
    /\ reader.i >= Len(event_store)
    /\ reader' = [reader EXCEPT !.pc = "returned",
                                !.results = GroupByVariant(reader.experiment_id,
                                                           reader.exp_events)]
    /\ answer' = [op |-> "get_experiment_results",
                  experiment_id |-> reader.experiment_id,
                  raised |-> FALSE, results |-> reader'.results]
    /\ UNCHANGED <<experiments, event_store, digest, seen, engine, call,
                   history, now, lookup>>

\* another thread tracks an event; list.append is one step
ConcurrentTrack ==
    \E e \in Appended :
        /\ Len(event_store) < MaxEvents
        /\ event_store' = track_event(e[1], e[2], e[3], e[4], e[5])
        /\ answer' = [op |-> "track_event", user_id |-> e[1],
                      experiment_id |-> e[2], variant |-> e[3],
                      event_type |-> e[4], metadata |-> e[5]]
        /\ reader' = IF reader.pc = "iterating"
                     THEN [reader EXCEPT !.during = reader.during + 1]
                     ELSE reader
        /\ UNCHANGED <<experiments, digest, seen, engine, call, history,
                       now, lookup>>

ConcurrentNext ==
    \/ ReadStart
    \/ ReadVisit
    \/ ReadReturn
    \/ ConcurrentTrack

SpecConcurrent == EventsInit /\ [][ConcurrentNext]_vars

\* the metrics of a variant over the first k events of the log
PrefixMetrics(experiment_id, variant, k) ==
    _calculate_metrics(
        SelectSeq(SubSeq(event_store, 1, k),
                  LAMBDA ev : ev.experiment_id = experiment_id
                              /\ ev.variant = variant))

\* C22: a get_experiment_results call that ran while events were appended
\* has returned, for every variant of the experiment, the metrics of some
\* prefix of the event log
C22_SnapshotConsistent ==
    reader.pc = "returned" =>
        /\ DOMAIN reader.results = VariantsOf(reader.experiment_id)
        /\ \A variant \in VariantsOf(reader.experiment_id) :
              \E k \in 0..Len(event_store) :
                  reader.results[variant]
                      = PrefixMetrics(reader.experiment_id, variant, k)

\* results returned after events were appended during the iteration, some
\* of them seen by it, and a later one not
C22_Witness ==
    /\ reader.pc = "returned"
    /\ reader.experiment_id = "exp1"
    /\ reader.during >= 2
    /\ reader.results["control"].clicks = 1
    /\ reader.results["a"].clicks = 1
    /\ reader.i < Len(event_store)
    /\ event_store[Len(event_store)].experiment_id = "exp1"

\* ------------------------------------------------------------------------
\* The lifecycle of an experiment
\* ------------------------------------------------------------------------

\* the definitions an operator creates "exp1" with: two halves; two halves
\* of variants without a 'control'; a split that names a variant the
\* variants do not have; and a split that sums to 0.99
LifecycleConfigs ==
    {[variants |-> <<"control", "a">>,
      traffic_split |-> <<<<"control", 50>>, <<"a", 50>>>>],
     [variants |-> <<"a", "b">>,
      traffic_split |-> <<<<"a", 50>>, <<"b", 50>>>>],
     [variants |-> <<"control", "a">>,
      traffic_split |-> <<<<"control", 50>>, <<"b", 50>>>>],
     [variants |-> <<"control", "a">>,
      traffic_split |-> <<<<"control", 50>>, <<"a", 49>>>>]}

\* the ids the lifecycle operations are called with
LifecycleIds == {"exp1", "rec_algorithm_v3", "nope"}

LifecycleCreate ==
    \E experiment_id \in CreatedIds, c \in LifecycleConfigs :
        LET r == create_experiment(experiment_id, c.variants, c.traffic_split)
        IN  /\ experiments' = r.experiments
            /\ answer' = [op |-> "create_experiment",
                          experiment_id |-> experiment_id,
                          variants |-> c.variants,
                          traffic_split |-> c.traffic_split,
                          raised |-> r.raised,
                          replaced |-> /\ experiment_id \in DOMAIN experiments
                                       /\ experiments[experiment_id].active]
            /\ UNCHANGED <<event_store, digest, seen, engine, call, history,
                           now, lookup, reader>>

LifecycleActivate ==
    \E experiment_id \in LifecycleIds :
        /\ experiments' = activate_experiment(experiment_id)
        /\ answer' = [op |-> "activate_experiment",
                      experiment_id |-> experiment_id]
        /\ UNCHANGED <<event_store, digest, seen, engine, call, history,
                       now, lookup, reader>>

LifecycleDeactivate ==
    \E experiment_id \in LifecycleIds :
        /\ experiments' = deactivate_experiment(experiment_id)
        /\ answer' = [op |-> "deactivate_experiment",
                      experiment_id |-> experiment_id]
        /\ UNCHANGED <<event_store, digest, seen, engine, call, history,
                       now, lookup, reader>>

\* the serving layer asks for a user's variant
LifecycleGetVariant ==
    \E user_id \in Users, experiment_id \in AskedIds :
        /\ answer' = [op |-> "get_variant", user_id |-> user_id,
                      experiment_id |-> experiment_id,
                      value |-> get_variant(user_id, experiment_id)]
        /\ UNCHANGED <<experiments, event_store, digest, seen, engine, call,
                       history, now, lookup, reader>>

\* a click is tracked for the created experiment
LifecycleTrack ==
    /\ Len(event_store) < MaxProbes
    /\ event_store' = track_event("u1", "exp1", "control", "click", <<>>)
    /\ answer' = [op |-> "track_event"]
    /\ UNCHANGED <<experiments, digest, seen, engine, call, history, now,
                   lookup, reader>>

LifecycleNext ==
    \/ LifecycleCreate
    \/ LifecycleActivate
    \/ LifecycleDeactivate
    \/ LifecycleGetVariant
    \/ LifecycleTrack

SpecLifecycle == RegistryInit /\ [][LifecycleNext]_vars

\* the step is the lifecycle operation op on the experiment
StepOf(op, experiment_id) ==
    /\ answer'.op = op
    /\ answer'.experiment_id = experiment_id

\* C23: an experiment is inactive after a create_experiment that succeeded,
\* active after activate_experiment, and inactive with an end_date after
\* deactivate_experiment; a create_experiment that raises and every step
\* that is no lifecycle operation on its id leave its active flag as it was
C23_Lifecycle ==
    [][\A experiment_id \in ExperimentIds :
          IF StepOf("create_experiment", experiment_id) /\ ~answer'.raised
          THEN /\ experiment_id \in DOMAIN experiments'
               /\ ~experiments'[experiment_id].active
          ELSE IF experiment_id \notin DOMAIN experiments
          THEN experiment_id \notin DOMAIN experiments'
          ELSE /\ experiment_id \in DOMAIN experiments'
               /\ IF StepOf("activate_experiment", experiment_id)
                  THEN experiments'[experiment_id].active
                  ELSE IF StepOf("deactivate_experiment", experiment_id)
                  THEN /\ ~experiments'[experiment_id].active
                       /\ experiments'[experiment_id].end_date # <<>>
                  ELSE experiments'[experiment_id].active
                           = experiments[experiment_id].active]_vars

\* "exp1" was created, activated, deactivated and activated again
C23_Witness ==
    /\ "exp1" \in DOMAIN experiments
    /\ experiments["exp1"].active
    /\ experiments["exp1"].end_date # <<>>
    /\ answer.op = "activate_experiment"
    /\ answer.experiment_id = "exp1"

\* C26: the fractions of the traffic_split of every registered experiment
\* sum to 1.0, as the floats the code adds and as the numbers they stand for
C26_SplitSumsToOne ==
    \A experiment_id \in DOMAIN experiments :
        /\ FloatSum(experiments[experiment_id].traffic_split) = One
        /\ SplitSum(experiments[experiment_id].traffic_split) = 100

\* "exp1" is registered and active after a split that does not sum to 1.0
\* was rejected for the same id
C26_Witness ==
    /\ "exp1" \in DOMAIN experiments
    /\ experiments["exp1"].active
    /\ answer.op = "create_experiment"
    /\ answer.raised
    /\ SplitSum(answer.traffic_split) # 100

\* C27: the name get_variant returns for a registered experiment is a key
\* of the variants of that experiment
C27_VariantIsKey ==
    (answer.op = "get_variant" /\ answer.experiment_id \in DOMAIN experiments) =>
        answer.value \in VariantsOf(answer.experiment_id)

\* C27 holds for the built-in experiments, active or not
C27_VariantIsKeyBuiltIn ==
    (answer.op = "get_variant"
     /\ answer.experiment_id \in DOMAIN _initialize_experiments) =>
        answer.value \in VariantsOf(answer.experiment_id)

\* an inactive experiment without a variant 'control' answers 'control'
C27_NoControl ==
    /\ answer.op = "get_variant"
    /\ answer.experiment_id = "exp1"
    /\ "exp1" \in DOMAIN experiments
    /\ ~experiments["exp1"].active
    /\ VariantsOf("exp1") = {"a", "b"}
    /\ answer.value = "control"

\* an active experiment answers a key of its traffic_split that its
\* variants do not have
C27_Unknown ==
    /\ answer.op = "get_variant"
    /\ answer.experiment_id = "exp1"
    /\ "exp1" \in DOMAIN experiments
    /\ experiments["exp1"].active
    /\ answer.value = "b"
    /\ VariantsOf("exp1") = {"control", "a"}

\* C30: a create_experiment with a valid split for an id that is registered
\* does not raise and puts a new inactive definition in the place of the
\* old one, after which get_variant answers 'control' for every user, and
\* leaves the event log as it is; as long as the experiment is not
\* activated, get_variant keeps answering 'control'
C30_Recreate ==
    [][/\ \A experiment_id \in DOMAIN experiments :
              (/\ StepOf("create_experiment", experiment_id)
               /\ FloatSum(answer'.traffic_split) = One) =>
                  /\ ~answer'.raised
                  /\ experiments'[experiment_id]
                         = Experiment(answer'.variants, answer'.traffic_split,
                                      FALSE)
                  /\ \A user_id \in Users :
                        get_variant(user_id, experiment_id)' = "control"
                  /\ event_store' = event_store
       /\ \A experiment_id \in DOMAIN experiments :
              (/\ ~experiments[experiment_id].active
               /\ ~StepOf("activate_experiment", experiment_id)) =>
                  \A user_id \in Users :
                      get_variant(user_id, experiment_id)' = "control"]_vars

\* "exp1" was active, with a tracked event, when it was created again
C30_Witness ==
    /\ answer.op = "create_experiment"
    /\ answer.experiment_id = "exp1"
    /\ ~answer.raised
    /\ answer.replaced
    /\ ~experiments["exp1"].active
    /\ Len(event_store) = 1
    /\ event_store[1].experiment_id = "exp1"

\* ------------------------------------------------------------------------
\* Properties of the steps of the re-ranker
\* ------------------------------------------------------------------------

\* the similarity of two items, 0 when either has no vector
SimilarityOrZero(p, q) ==
    IF p \in DOMAIN product_vectors /\ q \in DOMAIN product_vectors
    THEN CosineSimilarity(product_vectors[p], product_vectors[q])
    ELSE 0

\* 0.7 x relevance - 0.3 x (the largest similarity to an item of sel), as
\* a numerator over 100 * ScoreDen
MmrOf(entry, sel) ==
    LET sims == {SimilarityOrZero(entry[1], sel[i][1]) : i \in DOMAIN sel}
        most == CHOOSE s \in sims : \A t \in sims : t <= s
    IN  7 * entry[2] - 3 * most * 10 * ScoreDen

\* the place of an item in the descending order of relevance
RankOf(item) ==
    CHOOSE i \in DOMAIN scores : SortedByScore(scores)[i][1] = item

\* C24: a step of the loop after the first pick moves to the selected list
\* a candidate whose mmr is the highest of the candidates, and of the
\* candidates of that mmr the one that is first in the descending order of
\* relevance
C24_MmrStep ==
    [][(pc = "rank" /\ selected # <<>> /\ selected' # selected) =>
          \E i \in DOMAIN candidates :
              /\ selected' = Append(selected, candidates[i])
              /\ Keys(candidates') = Keys(candidates) \ {candidates[i][1]}
              /\ \A k \in DOMAIN candidates :
                    /\ MmrOf(candidates[k], selected) <= MmrOf(candidates[i], selected)
                    /\ (MmrOf(candidates[k], selected) = MmrOf(candidates[i], selected)
                        /\ k # i) =>
                           RankOf(candidates[i][1]) < RankOf(candidates[k][1])]_vars

\* the second pick was not the most relevant of the candidates: the third
\* item returned has the higher relevance
C24_Witness ==
    /\ pc = "returned"
    /\ Len(result) = 3
    /\ Len(scores) = 3
    /\ result[2][2] < result[3][2]
    /\ product_vectors # EmptyMap

\* two candidates of the same mmr, of which the one earlier in the order of
\* relevance was picked
C24_Tie ==
    /\ pc = "rank"
    /\ Len(selected) = 2
    /\ candidates # <<>>
    /\ MmrOf(selected[2], SubSeq(selected, 1, 1))
           = MmrOf(candidates[1], SubSeq(selected, 1, 1))
    /\ RankOf(selected[2][1]) < RankOf(candidates[1][1])

\* ------------------------------------------------------------------------
\* The trending producer over the sorted set
\* ------------------------------------------------------------------------

\* a sorted set with one member more than _trending_items asks for
Crowded == [m \in 1..(TrendingTopK + 1) |-> 1 + (m % 2)]

\* the sorted set 'trending:24h' as earlier increments left it: without a
\* member, with members of score 0, or crowded
PersistedStores == {EmptyMap, [m \in Items |-> 0], Crowded}

TrendingInit ==
    /\ redis_client \in BOOLEAN
    /\ reachable = redis_client
    /\ trending \in PersistedStores
    /\ cf_cache = EmptyMap
    /\ cf_stored = EmptyMap
    /\ db = StubDB
    /\ user_vectors = NoModel.users
    /\ product_vectors = NoModel.products
    /\ pc = "idle"
    /\ args \in {CHOOSE a \in SharedArgs : TRUE}
    /\ raises = {}
    /\ prod = NoProd
    /\ scores = <<>>
    /\ selected = <<>>
    /\ candidates = <<>>
    /\ result = <<>>
    /\ added = [p \in Items |-> 0]
    /\ update_raised = FALSE
    /\ overlap = 0
    /\ now = 0
    /\ lookup = NoLookup
    /\ ABTestManager
    /\ digest = Md5Buckets

\* update_trending through a client whose server answers: one ZINCRBY
TrendIncrement ==
    \E product_id \in Items, score_increment \in 0..MaxTrendScore :
        /\ redis_client /\ reachable
        /\ Get0(trending, product_id) + score_increment <= MaxTrendScore
        /\ trending' = ZIncrBy(trending, score_increment, product_id)
        /\ UNCHANGED <<outside, redis_client, reachable, cf_cache, cf_stored,
                       user_vectors, product_vectors, db, call, history>>

\* a caller reads the trending producer; an error that left the function
\* would be the position "raised"
TrendRead ==
    /\ pc = "idle"
    /\ LET t == _trending_items(redis_client /\ ~reachable)
       IN  /\ prod' = [prod EXCEPT !.trend = AsMap(t.val)]
           /\ pc' = IF t.ok THEN "returned" ELSE "raised"
    /\ UNCHANGED <<outside, engine, history, args, raises, scores, selected,
                   candidates, result>>

TrendingNext ==
    \/ TrendIncrement
    \/ BackendDown
    \/ BackendUp
    \/ TrendRead

SpecTrending == TrendingInit /\ [][TrendingNext]_vars

\* the largest score of the sorted set, 0 for the empty one
LargestScore ==
    IF DOMAIN trending = {} THEN 0
    ELSE CHOOSE s \in {trending[m] : m \in DOMAIN trending} :
             \A m \in DOMAIN trending : trending[m] <= s

\* C25: a read of the trending producer does not raise; it returns the
\* empty map without a client, with a server that does not answer, for an
\* empty set and for a largest score of 0; else it returns the 100 members
\* of the highest scores, or all when there are fewer, each with its score
\* divided by the largest score, so that every value is in [0, 1] and the
\* value of a member of the largest score is 1
C25_Normalised ==
    [][(pc = "idle" /\ pc' # "idle") =>
          /\ pc' = "returned"
          /\ IF ~redis_client \/ ~reachable \/ LargestScore = 0
             THEN prod'.trend = EmptyMap
             ELSE /\ DOMAIN prod'.trend \subseteq DOMAIN trending
                  /\ Cardinality(DOMAIN prod'.trend)
                         = Min2(100, Cardinality(DOMAIN trending))
                  /\ \A m \in DOMAIN prod'.trend :
                        /\ prod'.trend[m] * LargestScore = trending[m] * ScoreDen
                        /\ prod'.trend[m] >= 0
                        /\ prod'.trend[m] <= ScoreDen
                        /\ \A o \in DOMAIN trending \ DOMAIN prod'.trend :
                              trending[o] <= trending[m]
                  /\ \E m \in DOMAIN prod'.trend : prod'.trend[m] = ScoreDen]_vars

\* a read of a sorted set of more than 100 members returned 100 of them,
\* with values of 1 and of a half
C25_Witness ==
    /\ pc = "returned"
    /\ Cardinality(DOMAIN trending) > 100
    /\ Cardinality(DOMAIN prod.trend) = 100
    /\ \E m \in DOMAIN prod.trend : 2 * prod.trend[m] = ScoreDen

\* ------------------------------------------------------------------------
\* _diversify_results on its own
\* ------------------------------------------------------------------------

\* the relevance scores of the maps the re-ranker is called with: 0.1 and
\* 0.4, as numerators over 10 * ScoreDen
RerankScores == {ScoreDen, 4 * ScoreDen}

\* the score maps: every order of every set of items, with every scoring
ScoreMaps ==
    UNION {{[i \in DOMAIN order |-> <<order[i], s[order[i]]>>] :
                order \in Orders(S), s \in [S -> RerankScores]} :
           S \in SUBSET Items}

\* a recommender with or without product vectors, and a caller about to
\* call _diversify_results(scores, n)
RerankInit ==
    /\ redis_client = FALSE
    /\ reachable = FALSE
    /\ trending = EmptyMap
    /\ cf_cache = EmptyMap
    /\ cf_stored = EmptyMap
    /\ db = StubDB
    /\ \E m \in {NoModel, ModelA} :
          /\ user_vectors = m.users
          /\ product_vectors = m.products
    /\ pc = "enter"
    /\ \E n \in 0..MaxN :
          args = [(CHOOSE a \in SharedArgs : TRUE) EXCEPT !.n = n]
    /\ raises = {}
    /\ prod = NoProd
    /\ scores \in ScoreMaps
    /\ selected = <<>>
    /\ candidates = <<>>
    /\ result = <<>>
    /\ added = [p \in Items |-> 0]
    /\ update_raised = FALSE
    /\ overlap = 0
    /\ now = 0
    /\ lookup = NoLookup
    /\ ABTestManager
    /\ digest = Md5Buckets

\* lines 277-285: the empty list for an empty map, else the candidates in
\* descending order of relevance
Enter ==
    /\ pc = "enter"
    /\ IF scores = <<>>
       THEN /\ pc' = "returned"
            /\ result' = <<>>
            /\ UNCHANGED <<selected, candidates>>
       ELSE /\ pc' = "rank"
            /\ selected' = <<>>
            /\ candidates' = SortedByScore(scores)
            /\ UNCHANGED result
    /\ UNCHANGED <<outside, history, engine, args, raises, prod, scores>>

RerankNext ==
    \/ Enter
    \/ PickFirst
    \/ PickMmr
    \/ Return

SpecRerank == RerankInit /\ [][RerankNext]_vars /\ WF_vars(RerankNext)

\* C28: every iteration of the loop of _diversify_results moves exactly one
\* item from the candidates to the end of the selected list; the call
\* returns, and what it returns for n >= 0 are min(n, number of entries of
\* the score map) entries of the score map, items with their relevance
C28_Terminates ==
    /\ [][(pc = "rank" /\ pc' = "rank") =>
             \E i \in DOMAIN candidates :
                 /\ selected' = Append(selected, candidates[i])
                 /\ candidates' = Remove(candidates, i)]_vars
    /\ [](pc = "returned" =>
             /\ Len(result) = Min2(args.n, Len(scores))
             /\ \A i \in DOMAIN result :
                   \E j \in DOMAIN scores : scores[j] = result[i])
    /\ <>(pc = "returned")

\* three items with vectors were ranked for n = 2, and the second of the
\* list is not the second in relevance
C28_Witness ==
    /\ pc = "returned"
    /\ args.n = 2
    /\ Len(scores) = 3
    /\ Len(result) = 2
    /\ product_vectors # EmptyMap
    /\ \E j \in DOMAIN candidates : candidates[j][2] > result[2][2]

\* ------------------------------------------------------------------------
\* Events of other experiments and of unknown variants
\* ------------------------------------------------------------------------

\* the events callers track: of a variant of "exp1", of a variant "exp1"
\* does not have, of another experiment, and of an id that is not registered
IsolationInputs ==
    {<<"u1", "exp1", "control", "click", <<>>>>,
     <<"u2", "exp1", "a", "purchase", <<50>>>>,
     <<"u1", "exp1", "ghost", "click", <<>>>>,
     <<"u2", "rec_algorithm_v3", "control", "click", <<>>>>,
     <<"u1", "nope", "control", "impression", <<>>>>}

IsolationTrack ==
    \E e \in IsolationInputs :
        /\ Len(event_store) < MaxEvents
        /\ event_store' = track_event(e[1], e[2], e[3], e[4], e[5])
        /\ answer' = [op |-> "track_event", user_id |-> e[1],
                      experiment_id |-> e[2], variant |-> e[3],
                      event_type |-> e[4], metadata |-> e[5]]
        /\ UNCHANGED <<experiments, digest, seen, engine, call, history,
                       now, lookup, reader>>

IsolationNext ==
    \/ IsolationTrack
    \/ GetExperimentResults

SpecIsolation == EventsInit /\ [][IsolationNext]_vars

\* no count of the entry later is below that of the entry earlier
NoCountLower(earlier, later) ==
    /\ later.users >= earlier.users
    /\ later.impressions >= earlier.impressions
    /\ later.clicks >= earlier.clicks
    /\ later.purchases >= earlier.purchases

\* C29: track_event logs an event of any experiment id and variant name;
\* the results of a registered experiment are after the call what they
\* were before it unless the event has the id of the experiment and one of
\* its variants, and then only the entry of that variant changes and none
\* of its counts gets lower
C29_Isolation ==
    [][answer'.op = "track_event" =>
          /\ Len(event_store') = Len(event_store) + 1
          /\ \A experiment_id \in DOMAIN experiments :
                IF /\ answer'.experiment_id = experiment_id
                   /\ answer'.variant \in VariantsOf(experiment_id)
                THEN \A variant \in VariantsOf(experiment_id) :
                        IF variant = answer'.variant
                        THEN NoCountLower(
                                 get_experiment_results(experiment_id).results[variant],
                                 get_experiment_results(experiment_id)'.results[variant])
                        ELSE get_experiment_results(experiment_id)'.results[variant]
                                 = get_experiment_results(experiment_id).results[variant]
                ELSE get_experiment_results(experiment_id)'
                         = get_experiment_results(experiment_id)]_vars

\* events of an unknown variant, of another experiment and of an id that is
\* not registered are in the log, and the results of "exp1" show one click
C29_Witness ==
    /\ answer.op = "get_experiment_results"
    /\ answer.experiment_id = "exp1"
    /\ answer.results["control"].clicks = 1
    /\ answer.results["a"].users = 0
    /\ Len(event_store) = 4
    /\ \E i \in DOMAIN event_store : event_store[i].variant = "ghost"
    /\ \E i \in DOMAIN event_store : event_store[i].experiment_id = "nope"
    /\ \E i \in DOMAIN event_store :
          event_store[i].experiment_id = "rec_algorithm_v3"

=============================================================================
